---- MODULE Spec2Model ----
(***************************************************************************)
(* Model of the Kypher query compiler (kgtk/kypher/query.py, KgtkQuery).   *)
(* Strings whose content matters (query text, placeholders, handles, file  *)
(* paths, table aliases, column names) are sequences of one-character      *)
(* strings; literal values are opaque atoms.                               *)
(***************************************************************************)
EXTENDS Integers, Sequences, FiniteSets, TLC

VARIABLES
    phase,          \* which component is being exercised / position of the caller
    litmap,         \* KgtkQuery.translate_to_sql: litmap (literal -> placeholder)
    raw_query,      \* the staged query text (query.getvalue() before the rewrite)
    staged,         \* number of fragments written to the staged text
    embedded,       \* history: literals whose placeholder was written, in text order
    issued,         \* history: (literal, placeholder) pairs returned by get_literal_parameter
    lastcall,       \* history: the last get_literal_parameter call
    query,          \* final query text returned by replace_literal_parameters
    parameters,     \* positional parameter list returned by replace_literal_parameters
    files,          \* KgtkQuery.files: registered edge files (real paths), in order
    graph_handle_map, \* KgtkQuery.graph_handle_map: handle -> file
    resolved,       \* history: the file each handle resolved to the first time
    lastres,        \* history: the last graph resolution
    match_clauses,  \* KgtkQuery.match_clauses: the (node1, rel, node2) clauses of the query
    ci,             \* translate_to_sql: index i of the clause being translated (1-based)
    pos,            \* position in the clause: 0 before its graph is resolved, 1 node1, 2 node2, 3 rel
    graph_alias,    \* translate_to_sql: graph_alias of the clause being translated
    graphs,         \* translate_to_sql: graphs, set of (graph, alias)
    varmap,         \* translate_to_sql: varmap, variable -> set of (alias, column)
    setorder,       \* the order in which each set of varmap currently iterates
    joins,          \* translate_to_sql: joins, set of sorted pairs of (alias, column)
    restrictions,   \* translate_to_sql: restrictions, set of ((alias, column), rhs)
    select,         \* the (alias, column) references emitted for the return items
    from_list,      \* the (graph, alias) entries written to the FROM list
    where_list,     \* the restrictions written as AND alias."col"=rhs
    aliases,        \* history: the alias recorded for each clause in the structural pass
    inserted,       \* history: variable -> its references in the order they were inserted
    lastregs,       \* history: the register_clause_variable calls of the last step
    lastread,       \* history: the last variable read by expression_to_sql
    request,        \* KgtkQuery.where_clause, return_clause, order_clause, skip_clause, limit_clause
    sqlparts,       \* translate_to_sql: select, group_by, where, order, limit and the text written
    previous,       \* history: an earlier compilation of the same query and what it returned
    file_in,        \* EdgeReader.file_in: the stream, its first line and how far it has been read
    reader,         \* the EdgeReader object returned by open, or the error open raised
    gzip_thread,    \* GunzipProcess: where its run() stands and the line it holds
    line_queue,     \* GunzipProcess.line_queue: the lines and the plug waiting in the queue
    lastnext,       \* history: what the last EdgeReader.__next__ call returned or raised
    dequeued        \* history: the lines the caller has taken from line_queue

litvars == <<litmap, raw_query, staged, embedded, issued, lastcall, query, parameters>>
graphvars == <<files, graph_handle_map, resolved, lastres>>
transvars == <<match_clauses, ci, pos, graph_alias, graphs, varmap, setorder, joins, restrictions,
               select, from_list, where_list, aliases, inserted, lastregs, lastread,
               request, sqlparts, previous>>
readervars == <<file_in, reader, gzip_thread, line_queue, lastnext, dequeued>>
vars == <<phase, litvars, graphvars, transvars, readervars>>

None == "None"
EmptyMap == [x \in {} |-> None]
NoCall == [literal |-> None, placeholder |-> <<>>, before |-> EmptyMap, after |-> EmptyMap]

NoRes == [graph |-> <<>>, handle |-> <<>>, before |-> EmptyMap, prior |-> <<>>,
          file |-> <<>>, after |-> EmptyMap]

IdleGraphVars ==
    /\ files = <<>>
    /\ graph_handle_map = EmptyMap
    /\ resolved = EmptyMap
    /\ lastres = NoRes

NoRead == [var |-> <<>>, text |-> <<>>, error |-> None]

\* None for a clause the query does not have
NoClause == [type |-> "None"]

\* KgtkQuery.where_clause, return_clause, order_clause, skip_clause, limit_clause
Request(where_clause, return_clause, order_clause, skip_clause, limit_clause) ==
    [where_clause |-> where_clause, return_clause |-> return_clause,
     order_clause |-> order_clause, skip_clause |-> skip_clause, limit_clause |-> limit_clause]

NoRequest == Request(NoClause, NoClause, NoClause, NoClause, NoClause)

\* the locals of translate_to_sql before anything is assembled
NoParts == [error |-> None, select |-> <<>>, group_by |-> <<>>, where |-> <<>>,
            order |-> <<>>, limit |-> <<>>, raw |-> <<>>]

\* no earlier compilation of the query
NoPrevious == [done |-> FALSE, match_clauses |-> <<>>, request |-> NoRequest,
            query |-> <<>>, parameters |-> <<>>]

\* translate_to_sql lines 538-543
\* no stream has been opened
NoStream == [header |-> <<>>, at |-> 0, eof |-> FALSE, closed |-> FALSE]
NoReader == [status |-> "unopened"]
NoThread == [pc |-> "none", line |-> <<>>, produced |-> <<>>]
NoNext == [kind |-> "none", values |-> <<>>, record |-> 0, reported |-> 0, line |-> <<>>]

IdleReaderVars ==
    /\ file_in = NoStream
    /\ reader = NoReader
    /\ gzip_thread = NoThread
    /\ line_queue = <<>>
    /\ lastnext = NoNext
    /\ dequeued = <<>>

InitTransVars ==
    /\ match_clauses = <<>>
    /\ ci = 1
    /\ pos = 0
    /\ graph_alias = <<>>
    /\ graphs = {}
    /\ varmap = EmptyMap
    /\ setorder = EmptyMap
    /\ joins = {}
    /\ restrictions = {}
    /\ select = <<>>
    /\ from_list = <<>>
    /\ where_list = <<>>
    /\ aliases = <<>>
    /\ inserted = EmptyMap
    /\ lastregs = <<>>
    /\ lastread = NoRead
    /\ request = NoRequest
    /\ sqlparts = NoParts
    /\ previous = NoPrevious

-----------------------------------------------------------------------------
(* Bounds *)

MaxStaged == 4      \* fragments (text or placeholder) written to the staged text

-----------------------------------------------------------------------------
(* String helpers *)

RECURSIVE Digits(_)
\* '%d' % n for n >= 0
Digits(n) ==
    IF n < 10 THEN <<CHOOSE c \in {"0","1","2","3","4","5","6","7","8","9"} :
                        c = <<"0","1","2","3","4","5","6","7","8","9">>[n + 1]>>
    ELSE Digits(n \div 10) \o Digits(n % 10)

StartsWith(s, c) == Len(s) > 0 /\ s[1] = c

RECURSIVE Concat(_)
\* ''.join(seq of strings)
Concat(ss) == IF ss = <<>> THEN <<>> ELSE Head(ss) \o Concat(Tail(ss))

-----------------------------------------------------------------------------
(* Literal parameter table *)

LiteralValues == {"loves", "name", "Joe"}

\* text written between placeholders: SQL text, never the marker character
TextFragments == { <<"c", "=">>, <<"1">> }

\* '???%d??' % n
Placeholder(n) == <<"?", "?", "?">> \o Digits(n) \o <<"?", "?">>

get_literal_parameter_nodedup(literal, lm) ==
    LET placeholder == Placeholder(Cardinality(DOMAIN lm))
    IN  [placeholder |-> placeholder,
         litmap |-> [l \in (DOMAIN lm) \cup {literal} |->
                        IF l = literal THEN placeholder ELSE lm[l]]]

\* KgtkQuery.get_literal_parameter: returns the placeholder and the updated litmap
get_literal_parameter(literal, lm) ==
    IF literal \in DOMAIN lm
    THEN [placeholder |-> lm[literal], litmap |-> lm]
    ELSE LET placeholder == Placeholder(Cardinality(DOMAIN lm))
         IN  [placeholder |-> placeholder,
              litmap |-> [l \in (DOMAIN lm) \cup {literal} |->
                             IF l = literal THEN placeholder ELSE lm[l]]]

\* str.find(sub, start) with 1-based positions; 0 when there is none
find(s, sub, start) ==
    LET hits == {i \in start..(Len(s) - Len(sub) + 1) : SubSeq(s, i, i + Len(sub) - 1) = sub}
    IN  IF hits = {} THEN 0 ELSE CHOOSE i \in hits : \A j \in hits : i <= j

RECURSIVE re_split_from(_, _, _)
\* the tokens of s from position `start' on, after those of acc
re_split_from(s, start, acc) ==
    LET at == find(s, <<"?", "?">>, start) IN
    IF at = 0 THEN Append(acc, SubSeq(s, start, Len(s)))
    ELSE re_split_from(s, at + 2, Append(acc, SubSeq(s, start, at - 1)))

\* re.split('\\?\\?', s): leftmost non-overlapping occurrences of `??'
re_split(s) == re_split_from(s, 1, <<>>)

\* {p: l for l, p in litmap.items()}
reverse_litmap(lm) ==
    [p \in {lm[l] : l \in DOMAIN lm} |-> CHOOSE l \in DOMAIN lm : lm[l] = p]

RECURSIVE replace_tokens(_, _, _, _)
replace_tokens(tokens, rev, q, paras) ==
    IF tokens = <<>> THEN [query |-> q, parameters |-> paras, error |-> None]
    ELSE LET token == Head(tokens) IN
         IF StartsWith(token, "?")
         THEN LET key == <<"?", "?">> \o token \o <<"?", "?">> IN
              IF key \in DOMAIN rev
              THEN replace_tokens(Tail(tokens), rev, q \o <<"?">>, Append(paras, rev[key]))
              ELSE [query |-> q, parameters |-> paras, error |-> "KeyError"]
         ELSE replace_tokens(Tail(tokens), rev, q \o token, paras)

RECURSIVE dedup(_)
dedup(s) ==
    IF s = <<>> THEN <<>>
    ELSE LET r == dedup(SubSeq(s, 1, Len(s) - 1)) IN
         IF \E i \in 1..Len(r) : r[i] = s[Len(s)] THEN r ELSE Append(r, s[Len(s)])

replace_literal_parameters_once(raw, lm) ==
    LET r == replace_tokens(re_split(raw), reverse_litmap(lm), <<>>, <<>>)
    IN  [r EXCEPT !.parameters = dedup(r.parameters)]

\* KgtkQuery.replace_literal_parameters
replace_literal_parameters(raw, lm) ==
    replace_tokens(re_split(raw), reverse_litmap(lm), <<>>, <<>>)

CountChar(s, c) == Cardinality({i \in 1..Len(s) : s[i] = c})

-----------------------------------------------------------------------------
(* Staging and materializing the query text *)

InitLitVars ==
    /\ litmap = EmptyMap
    /\ raw_query = <<>>
    /\ staged = 0
    /\ embedded = <<>>
    /\ issued = {}
    /\ lastcall = NoCall
    /\ query = <<>>
    /\ parameters = <<>>

CallRecord(literal, r) ==
    [literal |-> literal, placeholder |-> r.placeholder, before |-> litmap, after |-> r.litmap]

\* a translator interns a literal and writes the placeholder into the staged text
\* (expression_to_sql on a Literal, a label restriction)
EmitLiteral(literal) ==
    /\ phase = "staging"
    /\ staged < MaxStaged
    /\ LET r == get_literal_parameter(literal, litmap) IN
        /\ litmap' = r.litmap
        /\ raw_query' = raw_query \o r.placeholder
        /\ staged' = staged + 1
        /\ embedded' = Append(embedded, literal)
        /\ issued' = issued \cup {<<literal, r.placeholder>>}
        /\ lastcall' = CallRecord(literal, r)
    /\ UNCHANGED <<phase, query, parameters, graphvars, transvars>>
    /\ UNCHANGED readervars

\* a literal is interned but its restriction collapses into one already in the
\* restrictions set, so no further placeholder is written
InternLiteral(literal) ==
    /\ phase = "staging"
    /\ LET r == get_literal_parameter(literal, litmap) IN
        /\ litmap' = r.litmap
        /\ issued' = issued \cup {<<literal, r.placeholder>>}
        /\ lastcall' = CallRecord(literal, r)
    /\ UNCHANGED <<phase, raw_query, staged, embedded, query, parameters, graphvars, transvars>>
    /\ UNCHANGED readervars

\* query.write(...) of text that is not a placeholder
EmitText(text) ==
    /\ phase = "staging"
    /\ staged < MaxStaged
    /\ raw_query' = raw_query \o text
    /\ staged' = staged + 1
    /\ UNCHANGED <<phase, litmap, embedded, issued, lastcall, query, parameters, graphvars, transvars>>
    /\ UNCHANGED readervars

\* translate_to_sql line 593
Materialize ==
    /\ phase = "staging"
    /\ LET r == replace_literal_parameters(raw_query, litmap) IN
        /\ query' = r.query
        /\ parameters' = r.parameters
        /\ phase' = IF r.error = None THEN "materialized" ELSE "failed"
    /\ UNCHANGED <<litmap, raw_query, staged, embedded, issued, lastcall, graphvars, transvars>>
    /\ UNCHANGED readervars

InitLit == phase = "staging" /\ InitLitVars /\ IdleGraphVars /\ InitTransVars /\ IdleReaderVars

NextLit ==
    \/ \E literal \in LiteralValues : EmitLiteral(literal)
    \/ \E literal \in LiteralValues : InternLiteral(literal)
    \/ \E text \in TextFragments : EmitText(text)
    \/ Materialize

SpecLit == InitLit /\ [][NextLit]_vars

InternInjective ==
    /\ \A p, q \in issued : (p[2] = q[2]) <=> (p[1] = q[1])
    /\ lastcall.literal # None =>
         IF lastcall.literal \in DOMAIN lastcall.before
         THEN /\ lastcall.after = lastcall.before
              /\ lastcall.placeholder = lastcall.before[lastcall.literal]
         ELSE /\ lastcall.placeholder = Placeholder(Cardinality(DOMAIN lastcall.before))
              /\ lastcall.after[lastcall.literal] = lastcall.placeholder
              /\ \A l \in DOMAIN lastcall.after :
                    l # lastcall.literal =>
                       /\ lastcall.after[l] # lastcall.placeholder
                       /\ lastcall.after[l] = lastcall.before[l]

\* a known literal was interned again after two others had been added
WitnessInternAgain ==
    /\ lastcall.literal # None
    /\ lastcall.literal \in DOMAIN lastcall.before
    /\ Cardinality(DOMAIN litmap) = 3
    /\ lastcall.placeholder = Placeholder(0)

-----------------------------------------------------------------------------
(* Graph-handle resolver *)

IsDigit(c) == c \in {"0", "1", "2", "3", "4", "5", "6", "7", "8", "9"}

\* os.path.basename: the part after the last `/'
basename(path) ==
    LET slashes == {i \in 1..Len(path) : path[i] = "/"}
        last == IF slashes = {} THEN 0 ELSE CHOOSE i \in slashes : \A j \in slashes : j <= i
    IN  SubSeq(path, last + 1, Len(path))

\* key.find(sub) >= 0
Contains(key, sub) ==
    \E i \in 1..(Len(key) - Len(sub) + 1) : SubSeq(key, i, i + Len(sub) - 1) = sub

\* re.search('[0-9]+$', handle) and the m.start() > 0 test: strip the trailing
\* digit run unless it is the whole handle (m.start() is 0-based)
base_handle_of(handle) ==
    LET starts == {i \in 1..Len(handle) : \A j \in i..Len(handle) : IsDigit(handle[j])}
    IN  IF starts = {} THEN handle
        ELSE LET start == CHOOSE i \in starts : \A j \in starts : i <= j
             IN  IF start - 1 > 0 THEN SubSeq(handle, 1, start - 1) ELSE handle

Failed == <<"failed to uniquely map handle">>

MappedFiles(hmap) == {hmap[h] : h \in DOMAIN hmap}

MapPut(m, k, v) == [x \in (DOMAIN m) \cup {k} |-> IF x = k THEN v ELSE m[x]]

RECURSIVE scan_files(_, _, _, _, _)
\* the loop of lines 198-208 from position i
scan_files(fs, i, handle, base_handle, hmap) ==
    IF i > Len(fs) THEN [file |-> Failed, hmap |-> hmap]
    ELSE LET file == fs[i] IN
         IF file \notin MappedFiles(hmap)
         THEN IF handle = file
              THEN [file |-> file, hmap |-> MapPut(hmap, handle, file)]
              ELSE IF Contains(basename(file), handle) \/ Contains(basename(file), base_handle)
                   THEN [file |-> file, hmap |-> MapPut(hmap, handle, file)]
                   ELSE scan_files(fs, i + 1, handle, base_handle, hmap)
         ELSE scan_files(fs, i + 1, handle, base_handle, hmap)

RECURSIVE scan_files_all(_, _, _, _, _)
scan_files_all(fs, i, handle, base_handle, hmap) ==
    IF i > Len(fs) THEN [file |-> Failed, hmap |-> hmap]
    ELSE LET file == fs[i] IN
         IF handle = file
            \/ Contains(basename(file), handle) \/ Contains(basename(file), base_handle)
         THEN [file |-> file, hmap |-> MapPut(hmap, handle, file)]
         ELSE scan_files_all(fs, i + 1, handle, base_handle, hmap)

map_graph_handle_to_file_nomemo(fs, hmap, handle) ==
    scan_files(fs, 1, handle, base_handle_of(handle), hmap)

map_graph_handle_to_file_nomapped(fs, hmap, handle) ==
    IF handle \in DOMAIN hmap
    THEN [file |-> hmap[handle], hmap |-> hmap]
    ELSE scan_files_all(fs, 1, handle, base_handle_of(handle), hmap)

\* KgtkQuery.map_graph_handle_to_file: the returned file (or Failed when the
\* exception is raised) and the updated graph_handle_map
map_graph_handle_to_file(fs, hmap, handle) ==
    IF handle \in DOMAIN hmap
    THEN [file |-> hmap[handle], hmap |-> hmap]
    ELSE scan_files(fs, 1, handle, base_handle_of(handle), hmap)

\* node1.graph is None
NoGraph == <<None>>

\* KgtkQuery.__init__ line 172
default_graph(fs) == fs[1]

\* KgtkQuery.get_pattern_clause_graph up to the store lookup: `graph' is the
\* handle of the clause's first node, or None
get_pattern_clause_file(fs, hmap, graph) ==
    map_graph_handle_to_file(fs, hmap, IF graph # NoGraph THEN graph ELSE default_graph(fs))

MaxFiles == 3

\* real paths of edge files that may be registered
FilePool == { <<"/", "d", "/", "g", "1">>, <<"/", "g", "/", "h">>,
              <<"/", "d", "/", "h", "g">>, <<"/", "d", "2">> }

\* graph handles a match clause may carry
HandleNames == { <<"g">>, <<"g", "1", "2">>, <<"h">>, <<"2">>, <<"x", "9">> }

SeqsUpTo(S, n) == UNION {[1..k -> S] : k \in 1..n}

InitGraph ==
    /\ phase = "resolving"
    /\ InitLitVars
    /\ files \in SeqsUpTo(FilePool, MaxFiles)
    /\ graph_handle_map = EmptyMap
    /\ resolved = EmptyMap
    /\ lastres = NoRes
    /\ InitTransVars
    /\ IdleReaderVars

\* get_pattern_clause_graph for a clause whose first node carries `graph'
\* (NoGraph when it carries no handle)
Resolve(graph) ==
    LET handle == IF graph # NoGraph THEN graph ELSE default_graph(files)
        r == get_pattern_clause_file(files, graph_handle_map, graph)
    IN  /\ graph_handle_map' = r.hmap
        /\ resolved' = IF r.file # Failed /\ handle \notin DOMAIN resolved
                       THEN MapPut(resolved, handle, r.file) ELSE resolved
        /\ lastres' = [graph |-> graph, handle |-> handle, before |-> graph_handle_map,
                       prior |-> IF handle \in DOMAIN resolved THEN resolved[handle] ELSE <<>>,
                       file |-> r.file, after |-> r.hmap]

GetPatternClauseGraph(graph) ==
    /\ phase = "resolving"
    /\ graph # NoGraph
    /\ Resolve(graph)
    /\ UNCHANGED <<phase, litvars, files, transvars>>
    /\ UNCHANGED readervars

GetPatternClauseGraphDefault ==
    /\ phase = "resolving"
    /\ Resolve(NoGraph)
    /\ UNCHANGED <<phase, litvars, files, transvars>>
    /\ UNCHANGED readervars

NextGraph ==
    \/ \E graph \in HandleNames \cup {files[i] : i \in 1..Len(files)} :
          GetPatternClauseGraph(graph)
    \/ GetPatternClauseGraphDefault

SpecGraph == InitGraph /\ [][NextGraph]_vars

\* C7: once a handle has resolved to a file, every later resolution of that
\* handle returns the same file, whatever was resolved in between.
HandleResolutionStable ==
    lastres.prior # <<>> => lastres.file = lastres.prior

\* a handle resolved again after another handle failed and a third one succeeded
WitnessResolvedAgain ==
    /\ lastres.prior # <<>>
    /\ lastres.file = lastres.prior
    /\ Cardinality(DOMAIN graph_handle_map) >= 2
    /\ lastres.handle = <<"g">>
    /\ lastres.file # files[1]

\* C8: a clause without a graph handle resolves to the first registered file,
\* whatever was resolved before.
DefaultGraphIsFirstFile ==
    lastres.graph = NoGraph => lastres.file = files[1]

Candidates(fs, hmap) == {i \in 1..Len(fs) : fs[i] \notin MappedFiles(hmap)}

First(S) == CHOOSE i \in S : \A j \in S : i <= j

\* the file the resolution rules name for a handle that is not memoized
ExpectedFile(fs, hmap, handle) ==
    LET cand == Candidates(fs, hmap)
        equal == {i \in cand : fs[i] = handle}
        contain == {i \in cand : \/ Contains(basename(fs[i]), handle)
                                 \/ Contains(basename(fs[i]), base_handle_of(handle))}
    IN  IF equal # {} THEN fs[First(equal)]
        ELSE IF contain # {} THEN fs[First(contain)]
        ELSE Failed

\* C9: a handle that is not memoized resolves to the first not-yet-mapped
\* file whose path equals it, else the first not-yet-mapped file whose
\* basename contains it or its base handle, else fails and memoizes nothing;
\* no two handles are mapped to the same file.
ResolutionRule ==
    /\ (lastres.handle # <<>> /\ lastres.handle \notin DOMAIN lastres.before) =>
          /\ lastres.file = ExpectedFile(files, lastres.before, lastres.handle)
          /\ lastres.after = IF lastres.file = Failed THEN lastres.before
                             ELSE MapPut(lastres.before, lastres.handle, lastres.file)
    /\ \A h1, h2 \in DOMAIN graph_handle_map :
          h1 # h2 => graph_handle_map[h1] # graph_handle_map[h2]

\* a handle matched through its base handle skipped a file already mapped
WitnessSkippedMapped ==
    /\ lastres.handle = <<"g", "1", "2">>
    /\ lastres.handle \notin DOMAIN lastres.before
    /\ lastres.file # Failed
    /\ \E i \in 1..Len(files) :
          /\ files[i] \in MappedFiles(lastres.before)
          /\ Contains(basename(files[i]), <<"g">>)
          /\ \E j \in 1..Len(files) : i < j /\ files[j] = lastres.file

-----------------------------------------------------------------------------
(* Variable binding map *)

\* the characters of the model in code point order
CodePoints == <<"\"", "*", ".", "/", "0", "1", "2", "3", "4", "5", "6", "7", "8", "9",
                ";", "=", "?", "_", "a", "b", "c", "d", "e", "g", "h", "i", "l", "n",
                "o", "p", "q", "r", "x">>

Ord(c) == CHOOSE i \in 1..Len(CodePoints) : CodePoints[i] = c

RECURSIVE StrLess(_, _)
\* str < str: lexicographic by code point
StrLess(s, t) ==
    IF t = <<>> THEN FALSE
    ELSE IF s = <<>> THEN TRUE
    ELSE IF s[1] = t[1] THEN StrLess(Tail(s), Tail(t))
    ELSE Ord(s[1]) < Ord(t[1])

\* tuple < tuple for (alias, column) pairs
RefLess(a, b) == StrLess(a[1], b[1]) \/ (a[1] = b[1] /\ StrLess(a[2], b[2]))

\* equiv = [best_var, sql_var]; equiv.sort(); tuple(equiv)
sorted_pair_unsorted(best_var, sql_var) == <<best_var, sql_var>>

sorted_pair(best_var, sql_var) ==
    IF RefLess(sql_var, best_var) THEN <<sql_var, best_var>> ELSE <<best_var, sql_var>>

RECURSIVE IterationOrders(_)
\* the orders in which `for equiv_var in sql_vars' may iterate the set
IterationOrders(S) ==
    IF S = {} THEN {<<>>}
    ELSE UNION { {<<x>> \o order : order \in IterationOrders(S \ {x})} : x \in S }

RECURSIVE best_var_scan(_, _, _, _)
\* the loop of lines 276-285 from position i; <<>> stands for best_var = None
best_var_scan(order, i, this_graph, best_var) ==
    IF i > Len(order) THEN best_var
    ELSE LET equiv_var == order[i] IN
         IF best_var = <<>> THEN best_var_scan(order, i + 1, this_graph, equiv_var)
         ELSE IF this_graph = equiv_var[1] THEN equiv_var
         ELSE best_var_scan(order, i + 1, this_graph, equiv_var)

register_clause_variable_nojoin(query_var, sql_var, vm, js, order) ==
    IF query_var \notin DOMAIN vm
    THEN [varmap |-> MapPut(vm, query_var, {sql_var}), joins |-> js, best_var |-> <<>>]
    ELSE LET best_var == best_var_scan(order, 1, sql_var[1], <<>>) IN
         IF sql_var # best_var /\ sql_var[1] = best_var[1]
         THEN [varmap |-> [vm EXCEPT ![query_var] = @ \cup {sql_var}],
               joins |-> js \cup {sorted_pair(best_var, sql_var)},
               best_var |-> best_var]
         ELSE [varmap |-> [vm EXCEPT ![query_var] = @ \cup {sql_var}],
               joins |-> js, best_var |-> best_var]

\* KgtkQuery.register_clause_variable; `order' is the iteration order of
\* varmap[query_var] (unused on the first reference)
register_clause_variable(query_var, sql_var, vm, js, order) ==
    IF query_var \notin DOMAIN vm
    THEN [varmap |-> MapPut(vm, query_var, {sql_var}), joins |-> js, best_var |-> <<>>]
    ELSE LET best_var == best_var_scan(order, 1, sql_var[1], <<>>) IN
         IF sql_var # best_var
         THEN [varmap |-> [vm EXCEPT ![query_var] = @ \cup {sql_var}],
               joins |-> js \cup {sorted_pair(best_var, sql_var)},
               best_var |-> best_var]
         ELSE [varmap |-> vm, joins |-> js, best_var |-> best_var]

\* a set of this many elements has just had its table rebuilt by set.add
SetResizeAt == 5

InsertAnywhere(order, x) ==
    {SubSeq(order, 1, k) \o <<x>> \o SubSeq(order, k + 1, Len(order)) : k \in 0..Len(order)}

\* the iteration orders of a set after set.add(x): an element already there
\* changes nothing, a new one takes any place among the others, and a
\* rebuilt table may iterate in any order
orders_after_add(order, x) ==
    IF \E k \in 1..Len(order) : order[k] = x THEN {order}
    ELSE IF Len(order) + 1 = SetResizeAt
         THEN IterationOrders({order[k] : k \in 1..Len(order)} \cup {x})
         ELSE InsertAnywhere(order, x)

\* one register call on the sets as they currently iterate: the outcomes,
\* each with its history record
RegisterCalls(query_var, sql_var, vm, js, so) ==
    LET order == IF query_var \in DOMAIN vm THEN so[query_var] ELSE <<>>
        res == register_clause_variable(query_var, sql_var, vm, js, order)
        call == [var |-> query_var, ref |-> sql_var,
                 present |-> query_var \in DOMAIN vm /\ sql_var \in vm[query_var],
                 noop |-> res.varmap = vm /\ res.joins = js,
                 best_var |-> res.best_var,
                 last |-> IF order = <<>> THEN <<>> ELSE order[Len(order)],
                 order |-> order]
    IN  { [varmap |-> res.varmap, joins |-> res.joins, call |-> call,
           setorder |-> MapPut(so, query_var, neworder)]
          : neworder \in IF res.varmap = vm THEN {order} ELSE orders_after_add(order, sql_var) }

\* history of insertions after one register call
Inserted(ins, call) ==
    IF call.var \notin DOMAIN ins THEN MapPut(ins, call.var, <<call.ref>>)
    ELSE IF \E k \in 1..Len(ins[call.var]) : ins[call.var][k] = call.ref THEN ins
    ELSE [ins EXCEPT ![call.var] = Append(@, call.ref)]

first_reference_of_any(so, query_var) == so[CHOOSE v \in DOMAIN so : TRUE][1]

\* expression_to_sql, Variable branch: list(sql_vars)[0]
first_reference(so, query_var) == so[query_var][1]

-----------------------------------------------------------------------------
(* Pattern-clause translator *)

MaxClauses == 2     \* match clauses of the query

node1col == <<"n", "o", "d", "e", "1">>     \* get_node1_column
node2col == <<"n", "o", "d", "e", "2">>     \* get_node2_column
labelcol == <<"l", "a", "b", "e", "l">>     \* get_label_column
idcol == <<"i", "d">>                       \* get_id_column

\* SqliteStore.get_file_graph: the table of a registered file, graph_<n> in
\* registration order
get_file_graph(fs, file) ==
    <<"g", "r", "a", "p", "h", "_">> \o Digits(First({i \in 1..Len(fs) : fs[i] = file}))

\* '%s_c%d' % (graph, i+1), with i+1 the 1-based clause index
clause_alias(graph, i1) == graph \o <<"_", "c">> \o Digits(i1)

RECURSIVE double_quotes(_)
double_quotes(s) ==
    IF s = <<>> THEN <<>>
    ELSE (IF s[1] = "\"" THEN <<"\"", "\"">> ELSE <<s[1]>>) \o double_quotes(Tail(s))

\* sqlstore.sql_quote_ident
sql_quote_ident(ident) == <<"\"">> \o double_quotes(ident) \o <<"\"">>

\* AST nodes handed over by the parser
Literal(value) == [type |-> "Literal", value |-> value, name |-> <<>>]
Variable(name) == [type |-> "Variable", value |-> None, name |-> name]
Pattern(variable, label, props) == [variable |-> variable, label |-> label, props |-> props]
Clause(graph, node1, rel, node2) == [graph |-> graph, node1 |-> node1, rel |-> rel, node2 |-> node2]

Anonymous == <<>>

\* the name of a pattern's variable; the parser gives every anonymous variable
\* a name of its own
variable_name(pattern, i1, p) ==
    IF pattern.variable # Anonymous THEN pattern.variable ELSE <<"_">> \o Digits(i1) \o Digits(p)

\* further AST nodes: List, Minus, the binary operators (Add, Eq), Hat, Call
\* and the property lookup Expression2
List(elements) == [type |-> "List", elements |-> elements]
Minus(arg) == [type |-> "Minus", arg |-> arg]
Add(arg1, arg2) == [type |-> "Add", arg1 |-> arg1, arg2 |-> arg2]
Eq(arg1, arg2) == [type |-> "Eq", arg1 |-> arg1, arg2 |-> arg2]
Hat(arg1, arg2) == [type |-> "Hat", arg1 |-> arg1, arg2 |-> arg2]
Call(function, args) == [type |-> "Call", function |-> function, args |-> args]
Expression2(arg1, arg2) == [type |-> "Expression2", arg1 |-> arg1, arg2 |-> arg2]

\* OPERATOR_TABLE
OPERATOR_TABLE(expr_type) == IF expr_type = "Add" THEN <<"+">> ELSE <<"=">>

\* str.upper on the letters of identifiers
Upper(c) ==
    LET lower == <<"a","b","c","d","e","f","g","h","i","j","k","l","m",
                   "n","o","p","q","r","s","t","u","v","w","x","y","z">>
        upper == <<"A","B","C","D","E","F","G","H","I","J","K","L","M",
                   "N","O","P","Q","R","S","T","U","V","W","X","Y","Z">>
    IN  IF \E k \in 1..26 : lower[k] = c
        THEN upper[CHOOSE k \in 1..26 : lower[k] = c] ELSE c

upper(s) == [k \in 1..Len(s) |-> Upper(s[k])]

\* str.endswith
EndsWith(s, suffix) ==
    Len(s) >= Len(suffix) /\ SubSeq(s, Len(s) - Len(suffix) + 1, Len(s)) = suffix

RECURSIVE join(_, _)
\* sep.join(texts)
join(sep, texts) ==
    IF texts = <<>> THEN <<>>
    ELSE IF Len(texts) = 1 THEN texts[1]
    ELSE texts[1] \o sep \o join(sep, Tail(texts))

varmap_of_no_variable == EmptyMap

\* varmap = None of the callers that allow no variables (list elements, LIMIT,
\* SKIP): a map with the one key no variable has
NoVarmap == MapPut(EmptyMap, <<>>, None)

CAST == <<"C", "A", "S", "T">>

RECURSIVE lookups_to_sql(_, _)
\* expression_to_sql lines 440-456: the property lookups applied to `var'
lookups_to_sql(var, props) ==
    IF props = <<>> THEN var
    ELSE lookups_to_sql(
             IF EndsWith(upper(var), <<".", "\"", "I", "D", "\"">>)
             THEN SubSeq(var, 1, Len(var) - 3) \o props[1] \o <<"\"">>
             ELSE SubSeq(var, 1, Len(var) - 1) \o <<";">> \o props[1] \o <<"\"">>,
             Tail(props))

any_name_is_star(query_var) == TRUE

\* expression_to_sql line 377: query_var == '*'
is_star(query_var) == query_var = <<"*">>

RECURSIVE expression_to_sql(_, _, _, _)
RECURSIVE expressions_to_sql(_, _, _, _, _)

\* [self.expression_to_sql(x, litmap, varmap) for x in exprs]: the texts, in
\* order, up to the first error
expressions_to_sql(exprs, lm, vm, so, texts) ==
    LET Next(e) ==
            IF e.error # None THEN [texts |-> texts, litmap |-> e.litmap, error |-> e.error]
            ELSE expressions_to_sql(Tail(exprs), e.litmap, vm, so, Append(texts, e.text))
    IN  IF exprs = <<>> THEN [texts |-> texts, litmap |-> lm, error |-> None]
        ELSE Next(expression_to_sql(exprs[1], lm, vm, so))

\* KgtkQuery.expression_to_sql: the SQL text, the literal table after it and
\* the exception raised, if any
expression_to_sql(expr, lm, vm, so) ==
    LET Raise(message) == [text |-> <<>>, litmap |-> lm, error |-> message]
        \* the text written around the translation of the arguments
        Parameter(r) == [text |-> r.placeholder, litmap |-> r.litmap, error |-> None]
        Column(ref) ==
            [text |-> ref[1] \o <<".">> \o sql_quote_ident(ref[2]), litmap |-> lm, error |-> None]
        Around(arg, before, after) ==
            IF arg.error # None THEN arg ELSE [arg EXCEPT !.text = before \o @ \o after]
        Joined(es, before) ==
            IF es.error # None THEN Raise(es.error)
            ELSE [text |-> before \o <<"(">> \o join(<<",", " ">>, es.texts) \o <<")">>,
                  litmap |-> es.litmap, error |-> None]
        Binary(es) ==
            IF es.error # None THEN Raise(es.error)
            ELSE [text |-> <<"(">> \o es.texts[1] \o <<" ">> \o OPERATOR_TABLE(expr.type)
                           \o <<" ">> \o es.texts[2] \o <<")">>,
                  litmap |-> es.litmap, error |-> None]
        Lookups(var) ==
            IF var.error # None THEN var
            ELSE [var EXCEPT !.text = lookups_to_sql(@, expr.arg2)]
    IN
    IF expr.type = "Literal" THEN Parameter(get_literal_parameter(expr.value, lm))
    ELSE IF expr.type = "Variable"
    THEN IF <<>> \in DOMAIN vm THEN Raise("Illegal context for variable")
         ELSE IF is_star(expr.name) THEN [text |-> expr.name, litmap |-> lm, error |-> None]
         ELSE IF expr.name \notin DOMAIN vm THEN Raise("Undefined variable")
         ELSE Column(first_reference(so, expr.name))
    ELSE IF expr.type = "List"
    THEN Joined(expressions_to_sql(expr.elements, lm, NoVarmap, so, <<>>), <<>>)
    ELSE IF expr.type = "Minus"
    THEN Around(expression_to_sql(expr.arg, lm, vm, so), <<"(", "-", " ">>, <<")">>)
    ELSE IF expr.type \in {"Add", "Eq"}
    THEN Binary(expressions_to_sql(<<expr.arg1, expr.arg2>>, lm, vm, so, <<>>))
    ELSE IF expr.type = "Hat" THEN Raise("Unsupported operator")
    ELSE IF expr.type = "Call"
    THEN IF upper(expr.function) = CAST
         THEN IF Len(expr.args) = 2 /\ expr.args[2].type = "Variable"
              THEN Around(expression_to_sql(expr.args[1], lm, vm, so), CAST \o <<"(">>,
                          <<" ", "A", "S", " ">> \o expr.args[2].name \o <<")">>)
              ELSE Raise("Illegal CAST expression")
         ELSE Joined(expressions_to_sql(expr.args, lm, vm, so, <<>>), expr.function)
    ELSE \* Expression2
         IF expr.arg1.type = "Variable"
         THEN Lookups(expression_to_sql(expr.arg1, lm, vm, so))
         ELSE Raise("Unhandled property lookup expression")

\* the compile-time state threaded through the clause translators
Registered(st, rc) ==
    [st EXCEPT !.varmap = rc.varmap, !.joins = rc.joins, !.setorder = rc.setorder,
               !.calls = Append(@, rc.call)]

\* pattern_clause_to_sql, the part for one pattern: `restrcol' takes the label
\* restriction, `regcol' the variable
pattern_to_sql(pattern, graph, restrcol, regcol, st) ==
    LET r == get_literal_parameter(pattern.label, st.litmap)
        st1 == IF pattern.label # None
               THEN [st EXCEPT !.litmap = r.litmap,
                               !.restrictions = @ \cup {<<<<graph, restrcol>>, r.placeholder>>}]
               ELSE st
    IN  IF pattern.variable # Anonymous
        THEN {Registered(st1, rc) :
                 rc \in RegisterCalls(pattern.variable, <<graph, regcol>>, st1.varmap, st1.joins,
                                     st1.setorder)}
        ELSE {st1}

RECURSIVE props_to_sql_from(_, _, _, _, _, _)
\* the loop of lines 327-337 from the k-th property
props_to_sql_from(props, k, isrel, graph, column, st) ==
    IF k > Len(props) \/ st.error # None THEN {st}
    ELSE LET prop == props[k][1]
             expr == props[k][2]
             propcol == IF isrel THEN prop ELSE column \o <<";">> \o prop
             registered == IF expr.type = "Variable"
                           THEN {Registered(st, rc) :
                                    rc \in RegisterCalls(expr.name, <<graph, propcol>>,
                                                         st.varmap, st.joins, st.setorder)}
                           ELSE {st}
         IN  UNION { UNION { props_to_sql_from(props, k + 1, isrel, graph, column,
                                IF e.error # None THEN [s1 EXCEPT !.error = e.error]
                                ELSE [s1 EXCEPT !.litmap = e.litmap,
                                                !.restrictions = @ \cup {<<<<graph, propcol>>, e.text>>}])
                             : e \in {expression_to_sql(expr, s1.litmap, s1.varmap, s1.setorder)} }
                     : s1 \in registered }

\* KgtkQuery.pattern_props_to_sql; `name' is pattern.variable.name
pattern_props_to_sql(pattern, name, isrel, graph, column, st) ==
    IF Len(pattern.props) = 0 THEN {st}
    ELSE UNION { props_to_sql_from(pattern.props, 1, isrel, graph, column, Registered(st, rc))
                 : rc \in RegisterCalls(name, <<graph, column>>, st.varmap, st.joins, st.setorder) }

CurrentState ==
    [litmap |-> litmap, varmap |-> varmap, setorder |-> setorder, joins |-> joins,
     restrictions |-> restrictions, calls |-> <<>>, error |-> None]

RECURSIVE InsertedAll(_, _)
InsertedAll(ins, calls) ==
    IF calls = <<>> THEN ins ELSE InsertedAll(Inserted(ins, Head(calls)), Tail(calls))

Adopt(st) ==
    /\ litmap' = st.litmap
    /\ varmap' = st.varmap
    /\ setorder' = st.setorder
    /\ joins' = st.joins
    /\ restrictions' = st.restrictions
    /\ lastregs' = st.calls
    /\ inserted' = InsertedAll(inserted, st.calls)

var_a == <<"a">>
var_b == <<"b">>
var_r == <<"r">>
handle_g == <<"g">>

\* the match clauses a query is built from
ClausePool ==
    { \* (a)-[:loves]->(a)
      Clause(NoGraph, Pattern(var_a, None, <<>>), Pattern(Anonymous, "loves", <<>>),
             Pattern(var_a, None, <<>>)),
      \* (a {p: 'Joe'})-[r:name]->(b)
      Clause(NoGraph, Pattern(var_a, None, << <<<<"p">>, Literal("Joe")>> >>),
             Pattern(var_r, "name", <<>>), Pattern(var_b, None, <<>>)),
      \* g: (b)-[{q: a}]->(b)
      Clause(handle_g, Pattern(var_b, None, <<>>),
             Pattern(Anonymous, None, << <<<<"q">>, Variable(var_a)>> >>),
             Pattern(var_b, None, <<>>)),
      \* (a)-[r]->(b)
      Clause(NoGraph, Pattern(var_a, None, <<>>), Pattern(var_r, None, <<>>),
             Pattern(var_b, None, <<>>)) }

\* files registered with the query being translated
TranslateFiles == { << <<"/", "d", "/", "g", "1">> >>,
                    << <<"/", "d", "/", "g", "1">>, <<"/", "d", "/", "h", "g">> >> }

PatternAt(clause, p) == IF p = 1 THEN clause.node1 ELSE IF p = 2 THEN clause.node2 ELSE clause.rel

Advance ==
    IF pos < 3 THEN pos' = pos + 1 /\ ci' = ci
    ELSE pos' = 0 /\ ci' = ci + 1

InitTranslate ==
    /\ phase = "pass1"
    /\ InitLitVars
    /\ files \in TranslateFiles
    /\ graph_handle_map = EmptyMap
    /\ resolved = EmptyMap
    /\ lastres = NoRes
    /\ InitTransVars
    /\ IdleReaderVars

\* translate_to_sql lines 546-549: the next clause of the query and its graph;
\* the queries translated are those whose clauses differ from one another
Pass1Graph(clause) ==
    /\ phase = "pass1" /\ pos = 0
    /\ Len(match_clauses) < MaxClauses
    /\ \A k \in 1..Len(match_clauses) : match_clauses[k] # clause
    /\ previous.done => /\ Len(match_clauses) < Len(previous.match_clauses)
                      /\ clause = previous.match_clauses[Len(match_clauses) + 1]
    /\ match_clauses' = Append(match_clauses, clause)
    /\ LET res == get_pattern_clause_file(files, graph_handle_map, clause.graph) IN
        /\ graph_handle_map' = res.hmap
        /\ IF res.file = Failed
           THEN /\ phase' = "failed"
                /\ UNCHANGED <<pos, graph_alias, graphs, aliases>>
           ELSE LET graph == get_file_graph(files, res.file) IN
                /\ phase' = phase
                /\ pos' = 1
                /\ graph_alias' = clause_alias(graph, ci)
                /\ graphs' = graphs \cup {<<graph, clause_alias(graph, ci)>>}
                /\ aliases' = Append(aliases, clause_alias(graph, ci))
    /\ lastregs' = <<>>
    /\ UNCHANGED <<litvars, files, resolved, lastres, ci, varmap, setorder, joins, restrictions,
                   select, from_list, where_list, inserted, lastread,
                   request, sqlparts, previous>>
    /\ UNCHANGED readervars

\* translate_to_sql line 550, pattern_clause_to_sql for node1, node2, rel in turn
Pass1Pattern ==
    /\ phase = "pass1" /\ pos \in 1..3
    /\ \E st \in pattern_to_sql(PatternAt(match_clauses[ci], pos), graph_alias,
                                IF pos = 1 THEN node1col ELSE IF pos = 2 THEN node2col ELSE labelcol,
                                IF pos = 1 THEN node1col ELSE IF pos = 2 THEN node2col ELSE idcol,
                                CurrentState) : Adopt(st)
    /\ Advance
    /\ UNCHANGED <<phase, raw_query, staged, embedded, issued, lastcall, query, parameters,
                   graphvars, match_clauses, graph_alias, graphs, select, from_list,
                   where_list, aliases, lastread,
                   request, sqlparts, previous>>
    /\ UNCHANGED readervars

\* the structural pass has seen every clause
EndPass1 ==
    /\ phase = "pass1" /\ pos = 0
    /\ Len(match_clauses) >= 1
    /\ previous.done => match_clauses = previous.match_clauses
    /\ phase' = "pass2"
    /\ ci' = 1
    /\ lastregs' = <<>>
    /\ UNCHANGED <<litvars, graphvars, match_clauses, pos, graph_alias, graphs, varmap, setorder, joins,
                   restrictions, select, from_list, where_list, aliases, inserted, lastread,
                   request, sqlparts, previous>>
    /\ UNCHANGED readervars

\* translate_to_sql lines 553-555
Pass2Graph ==
    /\ phase = "pass2" /\ pos = 0
    /\ ci <= Len(match_clauses)
    /\ LET res == get_pattern_clause_file(files, graph_handle_map, match_clauses[ci].graph) IN
        /\ graph_handle_map' = res.hmap
        /\ IF res.file = Failed
           THEN phase' = "failed" /\ UNCHANGED <<pos, graph_alias>>
           ELSE /\ phase' = phase
                /\ pos' = 1
                /\ graph_alias' = clause_alias(get_file_graph(files, res.file), ci)
    /\ lastregs' = <<>>
    /\ UNCHANGED <<litvars, files, resolved, lastres, match_clauses, ci, graphs, varmap, setorder, joins,
                   restrictions, select, from_list, where_list, aliases, inserted, lastread,
                   request, sqlparts, previous>>
    /\ UNCHANGED readervars

\* translate_to_sql line 556, pattern_clause_props_to_sql for node1, node2, rel in turn
Pass2Pattern ==
    /\ phase = "pass2" /\ pos \in 1..3
    /\ \E st \in pattern_props_to_sql(PatternAt(match_clauses[ci], pos),
                                      variable_name(PatternAt(match_clauses[ci], pos), ci, pos),
                                      pos = 3, graph_alias,
                                      IF pos = 1 THEN node1col ELSE IF pos = 2 THEN node2col ELSE idcol,
                                      CurrentState) :
          /\ Adopt(st)
          /\ sqlparts' = [sqlparts EXCEPT !.error = st.error]
          /\ IF st.error # None THEN phase' = "failed" /\ UNCHANGED <<pos, ci>>
             ELSE phase' = phase /\ Advance
    /\ UNCHANGED <<raw_query, staged, embedded, issued, lastcall, query, parameters,
                   graphvars, match_clauses, graph_alias, graphs, select, from_list,
                   where_list, aliases, lastread,
                   request, previous>>
    /\ UNCHANGED readervars

\* the property pass has seen every clause
EndPass2 ==
    /\ phase = "pass2" /\ pos = 0
    /\ ci > Len(match_clauses)
    /\ phase' = "return"
    /\ lastregs' = <<>>
    /\ UNCHANGED <<litvars, graphvars, match_clauses, ci, pos, graph_alias, graphs, varmap, setorder,
                   joins, restrictions, select, from_list, where_list, aliases, inserted,
                   lastread,
                   request, sqlparts, previous>>
    /\ UNCHANGED readervars

\* the text of a variable reference, alias."col"
RefText(ref) == ref[1] \o <<".">> \o sql_quote_ident(ref[2])

\* variables the return clause may read
ReturnVars == {var_a, var_b, <<"x">>}

RestrictionLess(x, y) == RefLess(x[1], y[1]) \/ (x[1] = y[1] /\ StrLess(x[2], y[2]))

RECURSIVE sorted_graphs(_)
\* sorted(list(graphs))
sorted_graphs(S) ==
    IF S = {} THEN <<>>
    ELSE LET m == CHOOSE x \in S : \A y \in S \ {x} : RefLess(x, y)
         IN  <<m>> \o sorted_graphs(S \ {m})

RECURSIVE sorted_restrictions(_)
\* sorted(list(restrictions))
sorted_restrictions(S) ==
    IF S = {} THEN <<>>
    ELSE LET m == CHOOSE x \in S : \A y \in S \ {x} : RestrictionLess(x, y)
         IN  <<m>> \o sorted_restrictions(S \ {m})

\* the clauses of the query other than MATCH
Where(expression) == [type |-> "Where", expression |-> expression]
ReturnItem(expression, name) == [expression |-> expression, name |-> name]
Return(distinct, items) == [type |-> "Return", distinct |-> distinct, items |-> items]
SortItem(expression, direction) == [expression |-> expression, direction |-> direction]
Order(items) == [type |-> "Order", items |-> items]
Skip(expression) == [type |-> "Skip", expression |-> expression]
Limit(expression) == [type |-> "Limit", expression |-> expression]

\* item.name of a return item without alias
NoName == <<>>

\* store.is_aggregate_function
AggregateFunctions == { <<"c", "o", "u", "n", "t">>, <<"s", "u", "m">> }
is_aggregate_function(function) == function \in AggregateFunctions

RECURSIVE has_element(_)
\* parser.has_element(expression, lambda x: isinstance(x, parser.Call) and
\* self.store.is_aggregate_function(x.function))
has_element(expr) ==
    IF expr.type \in {"Literal", "Variable"} THEN FALSE
    ELSE IF expr.type = "List" THEN \E k \in 1..Len(expr.elements) : has_element(expr.elements[k])
    ELSE IF expr.type = "Minus" THEN has_element(expr.arg)
    ELSE IF expr.type \in {"Add", "Eq", "Hat"} THEN has_element(expr.arg1) \/ has_element(expr.arg2)
    ELSE IF expr.type = "Call"
    THEN is_aggregate_function(expr.function)
         \/ \E k \in 1..Len(expr.args) : has_element(expr.args[k])
    ELSE has_element(expr.arg1)

\* where_clause_to_sql
where_clause_to_sql(where_clause, lm, vm, so) ==
    IF where_clause.type = "None" THEN [text |-> <<>>, litmap |-> lm, error |-> None]
    ELSE expression_to_sql(where_clause.expression, lm, vm, so)

\* agg_info entry of an aggregate column
NoKey == <<>>

group_by_clause_unsliced(agg_info) ==
    LET regs == {col \in 1..Len(agg_info) : agg_info[col] # NoKey}
        aggs == {col \in 1..Len(agg_info) : agg_info[col] = NoKey}
        keys == SelectSeq(agg_info, LAMBDA key : key # NoKey)
    IN  IF \E r \in regs : \E a \in aggs : a > r
        THEN <<"G", "R", "O", "U", "P", " ", "B", "Y", " ">> \o join(<<",", " ">>, keys) ELSE <<>>

\* return_clause_to_sql_selection lines 501-512; columns are counted from 0
\* and <<>> stands for group_by = None
group_by_clause(agg_info) ==
    LET cols == 0..(Len(agg_info) - 1)
        regs == {col \in cols : agg_info[col + 1] # NoKey}
        aggs == {col \in cols : agg_info[col + 1] = NoKey}
        first_reg == IF regs = {} THEN Len(agg_info) ELSE CHOOSE c \in regs : \A d \in regs : c <= d
        last_agg == IF aggs = {} THEN -1 ELSE CHOOSE c \in aggs : \A d \in aggs : c >= d
    IN  IF last_agg > first_reg
        THEN <<"G", "R", "O", "U", "P", " ", "B", "Y", " ">> \o join(<<",", " ">>, SelectSeq(SubSeq(agg_info, 1, last_agg),
                                                 LAMBDA key : key # NoKey))
        ELSE <<>>

RECURSIVE return_items_to_sql(_, _, _, _, _)
\* the loop of lines 485-497: acc holds select, the item texts and agg_info
return_items_to_sql(items, lm, vm, so, acc) ==
    LET item == items[1]
        first == acc.texts = <<>>
        named == item.name # NoName
        Next(e) ==
            IF e.error # None THEN [acc EXCEPT !.litmap = e.litmap, !.error = e.error]
            ELSE return_items_to_sql(Tail(items), e.litmap, vm, so,
                     [acc EXCEPT
                        !.select = @ \o (IF first THEN e.text ELSE <<",", " ">> \o e.text)
                                     \o (IF named THEN <<" ">> \o sql_quote_ident(item.name) ELSE <<>>),
                        !.texts = Append(@, e.text),
                        !.agg_info = Append(@, IF has_element(item.expression) THEN NoKey
                                               ELSE IF named THEN item.name ELSE e.text)])
    IN  IF items = <<>> THEN [acc EXCEPT !.litmap = lm]
        ELSE Next(expression_to_sql(item.expression, lm, vm, so))

\* KgtkQuery.return_clause_to_sql_selection
return_clause_to_sql_selection(clause, lm, vm, so) ==
    LET Selection(r) ==
            [select |-> r.select, texts |-> r.texts, agg_info |-> r.agg_info,
             group_by |-> IF r.error = None THEN group_by_clause(r.agg_info) ELSE <<>>,
             litmap |-> r.litmap, error |-> r.error]
    IN  Selection(return_items_to_sql(clause.items, lm, vm, so,
            [select |-> IF clause.distinct THEN <<"D", "I", "S", "T", "I", "N", "C", "T", " ">> ELSE <<>>,
             texts |-> <<>>, agg_info |-> <<>>, litmap |-> lm, error |-> None]))

RECURSIVE sort_items_to_sql(_, _, _, _, _)
\* the loop of lines 519-522
sort_items_to_sql(items, lm, vm, so, acc) ==
    LET direction == upper(items[1].direction)
        Next(e) ==
            IF e.error # None THEN [texts |-> acc, litmap |-> e.litmap, error |-> e.error]
            ELSE sort_items_to_sql(Tail(items), e.litmap, vm, so,
                     Append(acc, e.text \o (IF SubSeq(direction, 1, 3) = <<"A", "S", "C">> THEN <<>>
                                            ELSE <<" ">> \o direction)))
    IN  IF items = <<>> THEN [texts |-> acc, litmap |-> lm, error |-> None]
        ELSE Next(expression_to_sql(items[1].expression, lm, vm, so))

\* KgtkQuery.order_clause_to_sql; <<>> stands for None
order_clause_to_sql(order_clause, lm, vm, so) ==
    LET Ordered(r) ==
            [text |-> IF r.error = None
                      THEN <<"O", "R", "D", "E", "R", " ", "B", "Y", " ">> \o join(<<",", " ">>, r.texts)
                      ELSE <<>>,
             litmap |-> r.litmap, error |-> r.error]
    IN  IF order_clause.type = "None" THEN [text |-> <<>>, litmap |-> lm, error |-> None]
        ELSE Ordered(sort_items_to_sql(order_clause.items, lm, vm, so, <<>>))

limit_clauses_to_sql_skip_first(skip_clause, limit_clause, lm, so) ==
    LET NoText(r) == [text |-> <<>>, litmap |-> r.litmap, error |-> r.error]
        Both(s, l) ==
            IF l.error # None THEN NoText(l)
            ELSE [text |-> (IF skip_clause.type # "None"
                            THEN <<"O", "F", "F", "S", "E", "T", " ">> \o s.text \o <<" ">> ELSE <<>>)
                           \o <<"L", "I", "M", "I", "T", " ">> \o l.text,
                  litmap |-> l.litmap, error |-> None]
        AfterSkip(s) ==
            IF s.error # None THEN NoText(s)
            ELSE Both(s, IF limit_clause.type # "None"
                         THEN expression_to_sql(limit_clause.expression, s.litmap, NoVarmap, so)
                         ELSE [text |-> <<"-", "1">>, litmap |-> s.litmap, error |-> None])
    IN  IF skip_clause.type = "None" /\ limit_clause.type = "None"
        THEN [text |-> <<>>, litmap |-> lm, error |-> None]
        ELSE AfterSkip(IF skip_clause.type # "None"
                       THEN expression_to_sql(skip_clause.expression, lm, NoVarmap, so)
                       ELSE [text |-> <<>>, litmap |-> lm, error |-> None])

\* KgtkQuery.limit_clauses_to_sql; <<>> stands for None
limit_clauses_to_sql(skip_clause, limit_clause, lm, so) ==
    LET NoText(r) == [text |-> <<>>, litmap |-> r.litmap, error |-> r.error]
        Both(l, s) ==
            IF s.error # None THEN NoText(s)
            ELSE [text |-> <<"L", "I", "M", "I", "T", " ">> \o l.text
                           \o (IF skip_clause.type # "None"
                               THEN <<" ", "O", "F", "F", "S", "E", "T", " ">> \o s.text ELSE <<>>),
                  litmap |-> s.litmap, error |-> None]
        AfterLimit(l) ==
            IF l.error # None THEN NoText(l)
            ELSE Both(l, IF skip_clause.type # "None"
                         THEN expression_to_sql(skip_clause.expression, l.litmap, NoVarmap, so)
                         ELSE [text |-> <<>>, litmap |-> l.litmap, error |-> None])
    IN  IF skip_clause.type = "None" /\ limit_clause.type = "None"
        THEN [text |-> <<>>, litmap |-> lm, error |-> None]
        ELSE AfterLimit(IF limit_clause.type # "None"
                        THEN expression_to_sql(limit_clause.expression, lm, NoVarmap, so)
                        ELSE [text |-> <<"-", "1">>, litmap |-> lm, error |-> None])

RECURSIVE str_replace(_, _, _)
\* str.replace(old, new): the occurrences from left to right, not overlapping
str_replace(s, old, new) ==
    LET From(at) ==
            IF at = 0 THEN s
            ELSE SubSeq(s, 1, at - 1) \o new
                 \o str_replace(SubSeq(s, at + Len(old), Len(s)), old, new)
    IN  From(find(s, old, 1))

\* tuple < tuple for pairs of (alias, column) pairs
JoinLess(x, y) == RefLess(x[1], y[1]) \/ (x[1] = y[1] /\ RefLess(x[2], y[2]))

RECURSIVE sorted_joins(_)
\* sorted(list(joins))
sorted_joins(S) ==
    IF S = {} THEN <<>>
    ELSE LET m == CHOOSE x \in S : \A y \in S \ {x} : JoinLess(x, y)
         IN  <<m>> \o sorted_joins(S \ {m})

where_sentinel_always(rs, js, where_clause) == TRUE

\* translate_to_sql line 563: is `WHERE TRUE' written
where_sentinel(rs, js, where_clause) ==
    Cardinality(rs) > 0 \/ Cardinality(js) > 0 \/ where_clause.type # "None"

Sentinel == <<" ", "T", "R", "U", "E", "\n", "A", "N", "D">>

\* translate_to_sql line 592
scrub(text) == str_replace(text, Sentinel, <<>>)

\* translate_to_sql lines 558-593 on the sets the two passes have built: the
\* texts of the clauses, the query before and after the parameters are
\* replaced, and the exception raised, if any
translate_to_sql(gs, rs, js, lm, vm, so, req) ==
    LET Raised(r, texts) ==
            [error |-> r.error, litmap |-> r.litmap, texts |-> texts, select |-> <<>>,
             group_by |-> <<>>, where |-> <<>>, order |-> <<>>, limit |-> <<>>, raw |-> <<>>,
             query |-> <<>>, parameters |-> <<>>]
        Tables(glist) ==
            join(<<",", " ">>, [k \in 1..Len(glist) |-> glist[k][1] \o <<" ">> \o glist[k][2]])
        Restrictions(rlist) ==
            Concat([k \in 1..Len(rlist) |->
                      <<"\n", "A", "N", "D", " ">> \o RefText(rlist[k][1]) \o <<"=">> \o rlist[k][2]])
        Joins(jlist) ==
            Concat([k \in 1..Len(jlist) |->
                      <<"\n", "A", "N", "D", " ">> \o RefText(jlist[k][1]) \o <<"=">> \o RefText(jlist[k][2])])
        Text(sel, where, order, limit) ==
            <<"S", "E", "L", "E", "C", "T", " ">> \o sel.select
            \o <<"\n", "F", "R", "O", "M", " ">> \o Tables(sorted_graphs(gs))
            \o (IF where_sentinel(rs, js, req.where_clause)
                THEN <<"\n", "W", "H", "E", "R", "E", " ", "T", "R", "U", "E">> ELSE <<>>)
            \o Restrictions(sorted_restrictions(rs))
            \o Joins(sorted_joins(js))
            \o (IF where.text # <<>> THEN <<"\n", "A", "N", "D", " ">> \o where.text ELSE <<>>)
            \o (IF sel.group_by # <<>> THEN <<"\n">> \o sel.group_by ELSE <<>>)
            \o (IF order.text # <<>> THEN <<"\n">> \o order.text ELSE <<>>)
            \o (IF limit.text # <<>> THEN <<"\n">> \o limit.text ELSE <<>>)
        Written(sel, where, order, limit, text, out) ==
            IF out.error # None THEN Raised([error |-> out.error, litmap |-> limit.litmap], sel.texts)
            ELSE [error |-> None, litmap |-> limit.litmap, texts |-> sel.texts,
                  select |-> sel.select, group_by |-> sel.group_by, where |-> where.text,
                  order |-> order.text, limit |-> limit.text, raw |-> text,
                  query |-> out.query, parameters |-> out.parameters]
        Replaced(sel, where, order, limit, text) ==
            Written(sel, where, order, limit, text,
                    replace_literal_parameters(scrub(text), limit.litmap))
        AfterLimit(sel, where, order, limit) ==
            IF limit.error # None THEN Raised(limit, sel.texts)
            ELSE Replaced(sel, where, order, limit, Text(sel, where, order, limit))
        AfterOrder(sel, where, order) ==
            IF order.error # None THEN Raised(order, sel.texts)
            ELSE AfterLimit(sel, where, order,
                            limit_clauses_to_sql(req.skip_clause, req.limit_clause, order.litmap, so))
        AfterWhere(sel, where) ==
            IF where.error # None THEN Raised(where, sel.texts)
            ELSE AfterOrder(sel, where, order_clause_to_sql(req.order_clause, where.litmap, vm, so))
        AfterReturn(sel) ==
            IF sel.error # None THEN Raised(sel, sel.texts)
            ELSE AfterWhere(sel, where_clause_to_sql(req.where_clause, sel.litmap, vm, so))
    IN  AfterReturn(return_clause_to_sql_selection(req.return_clause, lm, vm, so))

\* the variable a return clause of one plain variable reads
ReadOf(req, out) ==
    IF Len(req.return_clause.items) = 1 /\ req.return_clause.items[1].expression.type = "Variable"
    THEN [var |-> req.return_clause.items[1].expression.name,
          text |-> IF out.texts # <<>> THEN out.texts[1] ELSE <<>>,
          error |-> IF out.texts # <<>> THEN None ELSE out.error]
    ELSE NoRead

\* translate_to_sql lines 558-596 for the clauses `req' of the query: the
\* return, where, order and limit clauses are translated, the query text is
\* written, scrubbed and its parameters are replaced
Assemble(req) ==
    /\ phase = "return"
    /\ previous.done => req = previous.request
    /\ \E out \in {translate_to_sql(graphs, restrictions, joins, litmap, varmap, setorder, req)} :
          /\ request' = req
          /\ litmap' = out.litmap
          /\ sqlparts' = [error |-> out.error, select |-> out.select, group_by |-> out.group_by,
                          where |-> out.where, order |-> out.order, limit |-> out.limit,
                          raw |-> out.raw]
          /\ query' = out.query
          /\ parameters' = out.parameters
          /\ lastread' = ReadOf(req, out)
          /\ IF out.error # None
             THEN phase' = "failed" /\ UNCHANGED <<select, from_list, where_list>>
             ELSE /\ phase' = "done"
                  /\ select' = out.texts
                  /\ from_list' = sorted_graphs(graphs)
                  /\ where_list' = sorted_restrictions(restrictions)
    /\ UNCHANGED <<raw_query, staged, embedded, issued, lastcall, graphvars, match_clauses, ci,
                   pos, graph_alias, graphs, varmap, setorder, joins, restrictions, aliases,
                   inserted, lastregs, previous>>
    /\ UNCHANGED readervars

\* return clauses of one plain variable
ReturnVar(v) == Return(FALSE, <<ReturnItem(Variable(v), NoName)>>)

\* a = 'Joe'
WhereJoe == Where(Eq(Variable(var_a), Literal("Joe")))

\* the requests translated after the pattern clauses
TranslateRequests ==
    { Request(w, ReturnVar(v), NoClause, NoClause, NoClause) :
        w \in {NoClause, WhereJoe}, v \in ReturnVars }

NextTranslate ==
    \/ \E clause \in ClausePool : Pass1Graph(clause)
    \/ Pass1Pattern
    \/ EndPass1
    \/ Pass2Graph
    \/ Pass2Pattern
    \/ EndPass2
    \/ \E req \in TranslateRequests : Assemble(req)

SpecTranslate == InitTranslate /\ [][NextTranslate]_vars

AllRefs == UNION {varmap[v] : v \in DOMAIN varmap}

\* C3: every pair (a, b) in joins has a < b in the canonical ordering; joins
\* holds no (x, x) and never both (a, b) and (b, a).
JoinsCanonical ==
    \A pair \in joins :
        /\ RefLess(pair[1], pair[2])
        /\ pair[1] # pair[2]
        /\ <<pair[2], pair[1]>> \notin joins

\* a join whose new reference sorts before the best existing one
WitnessJoinSwapped ==
    \E k \in 1..Len(lastregs) :
        /\ lastregs[k].best_var # <<>>
        /\ RefLess(lastregs[k].ref, lastregs[k].best_var)
        /\ <<lastregs[k].ref, lastregs[k].best_var>> \in joins

RECURSIVE Reachable(_, _)
\* the references connected to those of `seen' by pairs of `js'
Reachable(seen, js) ==
    LET more == seen \cup {pair[2] : pair \in {q \in js : q[1] \in seen}}
                     \cup {pair[1] : pair \in {q \in js : q[2] \in seen}}
    IN  IF more = seen THEN seen ELSE Reachable(more, js)

\* C4: any two references of a variable are connected by a path in the
\* undirected graph whose edges are the pairs in joins.
VarmapConnected ==
    \A v \in DOMAIN varmap : \A x \in varmap[v] : varmap[v] \subseteq Reachable({x}, joins)

\* a variable with three references over two clauses, one added by the property pass
WitnessConnectedAcrossClauses ==
    /\ phase = "return"
    /\ \E v \in DOMAIN varmap :
          /\ Cardinality(varmap[v]) >= 3
          /\ Cardinality({x[1] : x \in varmap[v]}) >= 2
          /\ \E x \in varmap[v] : x[2] = <<"q">>

\* C5: registering a reference that the variable already has changes neither
\* varmap nor joins.
RegisterPresentIsNoop ==
    \A k \in 1..Len(lastregs) : lastregs[k].present => lastregs[k].noop

RestrictionAliasInFrom ==
    /\ phase = "done" =>
          \A k \in 1..Len(where_list) :
              Cardinality({j \in 1..Len(from_list) : from_list[j][2] = where_list[k][1][1]}) = 1
    /\ (phase = "pass2" /\ pos >= 1) => graph_alias = aliases[ci]

\* a query over two tables with a restriction from each clause pass
WitnessRestrictionsBothPasses ==
    /\ phase = "done"
    /\ Len(from_list) = 2 /\ from_list[1][1] # from_list[2][1]
    /\ \E k \in 1..Len(where_list) : where_list[k][1][2] = labelcol
    /\ \E k \in 1..Len(where_list) : where_list[k][1][2] = <<"q">>

\* C11: the query text returned never contains ` TRUE\nAND', no `WHERE TRUE'
\* is left in it, and it has a WHERE clause exactly when there is a
\* restriction, a join or a where clause.
NoSentinelLeft ==
    phase = "done" =>
        /\ ~Contains(query, Sentinel)
        /\ ~Contains(query, <<"W", "H", "E", "R", "E", " ", "T", "R", "U", "E">>)
        /\ Contains(query, <<"\n", "W", "H", "E", "R", "E", " ">>)
              <=> (restrictions # {} \/ joins # {} \/ request.where_clause.type # "None")

\* a query whose only condition is its where clause, written after the sentinel
WitnessSentinelScrubbed ==
    /\ phase = "done"
    /\ restrictions = {} /\ joins = {}
    /\ request.where_clause.type # "None"
    /\ Contains(sqlparts.raw, Sentinel)
    /\ Contains(query, <<"\n", "W", "H", "E", "R", "E", " ", "(">>)

-----------------------------------------------------------------------------
(* The same query compiled a second time by another run of the program *)

\* the queries compiled twice
TwicePool ==
    { \* (a)-[:loves]->(a)
      Clause(NoGraph, Pattern(var_a, None, <<>>), Pattern(Anonymous, "loves", <<>>),
             Pattern(var_a, None, <<>>)),
      \* (a {p: 'Joe'})-[r:name]->(b)
      Clause(NoGraph, Pattern(var_a, None, << <<<<"p">>, Literal("Joe")>> >>),
             Pattern(var_r, "name", <<>>), Pattern(var_b, None, <<>>)) }

TwiceRequests ==
    { Request(NoClause, ReturnVar(v), NoClause, NoClause, NoClause) : v \in {var_a, <<"*">>} }

\* a new KgtkQuery for the same files and the same query text is compiled
\* after the first compilation has returned: __init__ and translate_to_sql
\* lines 538-543 start from empty tables
CompileAgain ==
    /\ phase = "done"
    /\ ~previous.done
    /\ previous' = [done |-> TRUE, match_clauses |-> match_clauses, request |-> request,
                    query |-> query, parameters |-> parameters]
    /\ phase' = "pass1"
    /\ litmap' = EmptyMap
    /\ query' = <<>>
    /\ parameters' = <<>>
    /\ graph_handle_map' = EmptyMap
    /\ match_clauses' = <<>>
    /\ ci' = 1
    /\ pos' = 0
    /\ graph_alias' = <<>>
    /\ graphs' = {}
    /\ varmap' = EmptyMap
    /\ setorder' = EmptyMap
    /\ joins' = {}
    /\ restrictions' = {}
    /\ select' = <<>>
    /\ from_list' = <<>>
    /\ where_list' = <<>>
    /\ aliases' = <<>>
    /\ inserted' = EmptyMap
    /\ lastregs' = <<>>
    /\ lastread' = NoRead
    /\ request' = NoRequest
    /\ sqlparts' = NoParts
    /\ UNCHANGED <<raw_query, staged, embedded, issued, lastcall, files, resolved, lastres>>
    /\ UNCHANGED readervars

NextTwice ==
    \/ \E clause \in TwicePool : Pass1Graph(clause)
    \/ Pass1Pattern
    \/ EndPass1
    \/ Pass2Graph
    \/ Pass2Pattern
    \/ EndPass2
    \/ \E req \in TwiceRequests : Assemble(req)
    \/ CompileAgain

SpecTwice == InitTranslate /\ [][NextTwice]_vars

\* C12: a second compilation of the same query over the same files returns
\* the same query text and the same parameter list as the first.
CompilationDeterministic ==
    (previous.done /\ phase = "done") =>
        /\ query = previous.query
        /\ parameters = previous.parameters

-----------------------------------------------------------------------------
(* Return, order, skip and limit clauses over one match clause *)

var_x == <<"x">>
var_n == <<"n">>

\* the match clauses of the queries whose other clauses vary
ReturnPool ==
    { \* (a)-[r:name]->(b)
      Clause(NoGraph, Pattern(var_a, None, <<>>), Pattern(var_r, "name", <<>>),
             Pattern(var_b, None, <<>>)),
      \* (a {p: -x})-[]->(b)
      Clause(NoGraph, Pattern(var_a, None, << <<<<"p">>, Minus(Variable(var_x))>> >>),
             Pattern(Anonymous, None, <<>>), Pattern(var_b, None, <<>>)) }

MaxItems == 3       \* items of a return clause

\* a, b AS n, count(b), sum(b) + 1 AS t
ReturnItemPool ==
    { ReturnItem(Variable(var_a), NoName),
      ReturnItem(Variable(var_b), var_n),
      ReturnItem(Call(<<"c", "o", "u", "n", "t">>, <<Variable(var_b)>>), NoName),
      ReturnItem(Add(Call(<<"s", "u", "m">>, <<Variable(var_b)>>), Literal("1")), <<"t">>) }

\* RETURN item, ... with up to MaxItems items
GroupRequests ==
    { Request(NoClause, Return(FALSE, items), NoClause, NoClause, NoClause) :
        items \in UNION {[1..n -> ReturnItemPool] : n \in 1..MaxItems} }

\* [WHERE a = 'Joe'] RETURN a [SKIP 2] [LIMIT 3 | LIMIT 2]
LimitRequests ==
    { Request(w, ReturnVar(var_a), NoClause, s, l) :
        w \in {NoClause, WhereJoe},
        s \in {NoClause, Skip(Literal("2"))},
        l \in {NoClause, Limit(Literal("3")), Limit(Literal("2"))} }

\* expressions that read x, which no match clause of ReturnPool binds alone
ReadsX ==
    { Variable(var_x), Minus(Variable(var_x)), Eq(Variable(var_a), Variable(var_x)),
      Call(<<"f">>, <<Variable(var_x)>>), Expression2(Variable(var_x), <<<<"p">>>>) }

\* x read in the where, return or order clause, and ORDER BY b DESC, r.p
UndefinedRequests ==
    { Request(Where(e), ReturnVar(var_a), NoClause, NoClause, NoClause) : e \in ReadsX }
    \cup { Request(NoClause, Return(TRUE, <<ReturnItem(e, NoName)>>), NoClause, NoClause, NoClause) :
             e \in ReadsX }
    \cup { Request(NoClause, ReturnVar(<<"*">>), Order(<<SortItem(e, <<"a", "s", "c">>)>>), NoClause, NoClause) :
             e \in ReadsX \cup {Variable(<<"*">>)} }
    \cup { Request(NoClause, ReturnVar(var_a),
                   Order(<<SortItem(Variable(var_b), <<"d", "e", "s", "c">>),
                           SortItem(Expression2(Variable(var_r), <<<<"p">>>>), <<"a", "s", "c", "e", "n", "d", "i", "n", "g">>)>>),
                   NoClause, NoClause) }

\* expressions with a variable in them, bound (a) or `*'
HasVariable ==
    { Variable(var_a), Variable(<<"*">>), Minus(Variable(var_a)),
      Add(Literal("1"), Variable(var_a)), Call(<<"f">>, <<Literal("1"), Variable(var_a)>>),
      Expression2(Variable(var_a), <<<<"p">>>>),
      \* cast('3', a), cast(a, int), cast(a), a ^ '2'
      Call(<<"c", "a", "s", "t">>, <<Literal("3"), Variable(var_a)>>),
      Call(<<"c", "a", "s", "t">>, <<Variable(var_a), Variable(<<"i", "n", "t">>)>>),
      Call(<<"c", "a", "s", "t">>, <<Variable(var_a)>>),
      Hat(Variable(var_a), Literal("2")) }

\* a variable in a list element, in LIMIT and in SKIP
ForbiddenRequests ==
    { Request(Where(Eq(Variable(var_b), List(<<Literal("1"), e>>))), ReturnVar(var_a),
              NoClause, NoClause, NoClause) : e \in HasVariable }
    \cup { Request(NoClause, ReturnVar(var_a), NoClause, NoClause, Limit(e)) : e \in HasVariable }
    \cup { Request(NoClause, ReturnVar(var_a), NoClause, Skip(e), NoClause) : e \in HasVariable }
    \cup { Request(NoClause, ReturnVar(var_a), NoClause, Skip(Variable(var_a)),
                   Limit(List(<<Literal("1")>>))) }

ReturnRequests == GroupRequests \cup LimitRequests \cup UndefinedRequests \cup ForbiddenRequests

NextReturn ==
    \/ \E clause \in ReturnPool : Pass1Graph(clause)
    \/ Pass1Pattern
    \/ EndPass1
    \/ Pass2Graph
    \/ Pass2Pattern
    \/ EndPass2
    \/ \E req \in ReturnRequests : Assemble(req)

SpecReturn == InitTranslate /\ [][NextReturn]_vars

\* is the k-th return item an aggregate column
IsAggregate(k) == has_element(request.return_clause.items[k].expression)

\* the grouping key of the k-th return item: its alias, else its text
GroupKey(k) ==
    IF request.return_clause.items[k].name # NoName
    THEN request.return_clause.items[k].name ELSE select[k]

\* C13: GROUP BY is emitted exactly when some non-aggregate return column
\* precedes some aggregate one; its keys are the non-aggregate entries (alias
\* if present, else expression text) before the last aggregate column, in
\* return order; otherwise the query has no grouping.
GroupByBeforeLastAggregate ==
    phase = "done" =>
        LET n == Len(request.return_clause.items)
            aggs == {k \in 1..n : IsAggregate(k)}
            grouped == \E r \in 1..n : \E a \in aggs : ~IsAggregate(r) /\ r < a
            keys == SelectSeq([k \in 1..n |-> k],
                              LAMBDA k : ~IsAggregate(k) /\ \E a \in aggs : k < a)
        IN  /\ grouped <=> sqlparts.group_by # <<>>
            /\ grouped <=> Contains(query, <<"\n", "G", "R", "O", "U", "P", " ", "B", "Y", " ">>)
            /\ grouped => sqlparts.group_by
                            = <<"G", "R", "O", "U", "P", " ", "B", "Y", " ">> \o join(<<",", " ">>, [i \in 1..Len(keys) |-> GroupKey(keys[i])])

\* b AS n, sum(b) + 1 AS t, a: the key is an alias, the aggregate has an alias
\* and a plain column follows the last aggregate
WitnessGroupByAlias ==
    /\ phase = "done"
    /\ Len(request.return_clause.items) = 3
    /\ ~IsAggregate(1) /\ request.return_clause.items[1].name = var_n
    /\ IsAggregate(2) /\ request.return_clause.items[2].name # NoName
    /\ ~IsAggregate(3)
    /\ sqlparts.group_by = <<"G", "R", "O", "U", "P", " ", "B", "Y", " ", "n">>

\* the digits of the number a skip or limit clause holds
NumberText(clause) == <<clause.expression.value>>

IsNumber(clause) == clause.type # "None" /\ clause.expression.type = "Literal"

\* C14: LIMIT n alone emits `LIMIT n', SKIP m alone emits `LIMIT -1 OFFSET m',
\* both emit `LIMIT n OFFSET m', neither emits no LIMIT clause.
LimitNumbersInText ==
    LET l == request.limit_clause
        s == request.skip_clause
    IN  (phase = "done" /\ (IsNumber(l) \/ l.type = "None") /\ (IsNumber(s) \/ s.type = "None")) =>
            IF l.type = "None" /\ s.type = "None" THEN ~Contains(query, <<"L", "I", "M", "I", "T">>)
            ELSE EndsWith(query,
                     <<"\n", "L", "I", "M", "I", "T", " ">> \o (IF l.type = "None" THEN <<"-", "1">> ELSE NumberText(l))
                     \o (IF s.type = "None" THEN <<>> ELSE <<" ", "O", "F", "F", "S", "E", "T", " ">> \o NumberText(s)))

\* C14 as amended: the numbers are written as parameters: LIMIT n alone emits
\* `LIMIT ?', SKIP m alone `LIMIT -1 OFFSET ?', both `LIMIT ? OFFSET ?', and
\* the parameter list ends with n, with m, or with n and m in this order;
\* neither emits no LIMIT clause.
LimitNumbersAsParameters ==
    LET l == request.limit_clause
        s == request.skip_clause
        numbers == (IF l.type = "None" THEN <<>> ELSE <<l.expression.value>>)
                   \o (IF s.type = "None" THEN <<>> ELSE <<s.expression.value>>)
    IN  (phase = "done" /\ (IsNumber(l) \/ l.type = "None") /\ (IsNumber(s) \/ s.type = "None")) =>
            IF l.type = "None" /\ s.type = "None"
            THEN ~Contains(query, <<"L", "I", "M", "I", "T">>) /\ ~Contains(query, <<"O", "F", "F", "S", "E", "T">>)
            ELSE /\ EndsWith(query,
                        <<"\n", "L", "I", "M", "I", "T", " ">> \o (IF l.type = "None" THEN <<"-", "1">> ELSE <<"?">>)
                        \o (IF s.type = "None" THEN <<>> ELSE <<" ", "O", "F", "F", "S", "E", "T", " ", "?">>))
                 /\ EndsWith(parameters, numbers)

\* WHERE a = 'Joe' RETURN a SKIP 2 LIMIT 2: the same number twice, after the
\* parameters of the label restriction and of the where clause
WitnessLimitAndOffset ==
    /\ phase = "done"
    /\ request.where_clause.type # "None"
    /\ IsNumber(request.limit_clause) /\ IsNumber(request.skip_clause)
    /\ EndsWith(query, <<"\n", "L", "I", "M", "I", "T", " ", "?", " ", "O", "F", "F", "S", "E", "T", " ", "?">>)
    /\ parameters = <<"name", "Joe", "2", "2">>

RECURSIVE VariablesRead(_)
\* the named variables an expression reads from varmap: not `*', not the type
\* name of a CAST, nothing below an operator that is not translated, and
\* nothing in a list, whose elements are translated without varmap
VariablesRead(expr) ==
    IF expr.type = "Variable" THEN (IF expr.name = <<"*">> THEN {} ELSE {expr.name})
    ELSE IF expr.type = "Minus" THEN VariablesRead(expr.arg)
    ELSE IF expr.type \in {"Add", "Eq"} THEN VariablesRead(expr.arg1) \cup VariablesRead(expr.arg2)
    ELSE IF expr.type = "Call"
    THEN IF upper(expr.function) = CAST
         THEN IF Len(expr.args) = 2 /\ expr.args[2].type = "Variable"
              THEN VariablesRead(expr.args[1]) ELSE {}
         ELSE UNION {VariablesRead(expr.args[k]) : k \in 1..Len(expr.args)}
    ELSE IF expr.type = "Expression2" /\ expr.arg1.type = "Variable" THEN VariablesRead(expr.arg1)
    ELSE {}

\* the variables the property restrictions of a pattern read
ReadInProps(pattern) ==
    UNION {VariablesRead(pattern.props[k][2]) : k \in 1..Len(pattern.props)}

\* the variables the where, return and order clauses read
ReadInRequest(req) ==
    (IF req.where_clause.type = "None" THEN {} ELSE VariablesRead(req.where_clause.expression))
    \cup (IF req.return_clause.type = "None" THEN {}
          ELSE UNION {VariablesRead(req.return_clause.items[k].expression) :
                        k \in 1..Len(req.return_clause.items)})
    \cup (IF req.order_clause.type = "None" THEN {}
          ELSE UNION {VariablesRead(req.order_clause.items[k].expression) :
                        k \in 1..Len(req.order_clause.items)})

\* C15: a query that compiles has every variable read in its where, return,
\* order and property-restriction expressions in varmap; one that reads a
\* variable without entry fails with `Undefined variable', and a failed
\* compilation returns no query text and no parameter list.
UndefinedVariableFails ==
    /\ phase = "done" =>
          /\ ReadInRequest(request) \subseteq DOMAIN varmap
          /\ \A i \in 1..Len(match_clauses) : \A p \in 1..3 :
                ReadInProps(PatternAt(match_clauses[i], p)) \subseteq DOMAIN varmap
    /\ (request # NoRequest /\ ~(ReadInRequest(request) \subseteq DOMAIN varmap)) =>
          phase = "failed" /\ sqlparts.error = "Undefined variable"
    /\ (phase = "pass2" /\ pos \in 1..3) =>
          \A i \in 1..(ci - 1) : \A p \in 1..3 :
              ReadInProps(PatternAt(match_clauses[i], p)) \subseteq DOMAIN varmap
    /\ (phase = "failed" /\ sqlparts.error # None /\ request = NoRequest) =>
          /\ ~(ReadInProps(PatternAt(match_clauses[ci], pos)) \subseteq DOMAIN varmap)
          /\ sqlparts.error = "Undefined variable"
    /\ phase = "failed" => query = <<>> /\ parameters = <<>>

\* (a)-[r:name]->(b) WHERE a = x: the bound a is read, then x fails
WitnessUndefinedInWhere ==
    /\ phase = "failed" /\ sqlparts.error = "Undefined variable"
    /\ request.where_clause.type # "None"
    /\ ReadInRequest(request) = {var_a, var_x}
    /\ var_a \in DOMAIN varmap /\ var_x \notin DOMAIN varmap
    /\ query = <<>> /\ parameters = <<>>

\* (a {p: -x})-[]->(b): x read in a property restriction
WitnessUndefinedInProperty ==
    /\ phase = "failed" /\ sqlparts.error = "Undefined variable"
    /\ request = NoRequest
    /\ var_x \in ReadInProps(PatternAt(match_clauses[ci], pos))

RECURSIVE AllVariables(_)
\* the names of the Variable nodes anywhere in an expression
AllVariables(expr) ==
    IF expr.type = "Variable" THEN {expr.name}
    ELSE IF expr.type = "List" THEN UNION {AllVariables(expr.elements[k]) : k \in 1..Len(expr.elements)}
    ELSE IF expr.type = "Minus" THEN AllVariables(expr.arg)
    ELSE IF expr.type \in {"Add", "Eq", "Hat"} THEN AllVariables(expr.arg1) \cup AllVariables(expr.arg2)
    ELSE IF expr.type = "Call" THEN UNION {AllVariables(expr.args[k]) : k \in 1..Len(expr.args)}
    ELSE IF expr.type = "Expression2" THEN AllVariables(expr.arg1)
    ELSE {}

RECURSIVE TranslatedVariables(_)
\* the names of the Variable nodes that are translated: all but the type name
\* of a two-argument CAST
TranslatedVariables(expr) ==
    IF expr.type = "Variable" THEN {expr.name}
    ELSE IF expr.type = "List"
    THEN UNION {TranslatedVariables(expr.elements[k]) : k \in 1..Len(expr.elements)}
    ELSE IF expr.type = "Minus" THEN TranslatedVariables(expr.arg)
    ELSE IF expr.type \in {"Add", "Eq", "Hat"}
    THEN TranslatedVariables(expr.arg1) \cup TranslatedVariables(expr.arg2)
    ELSE IF expr.type = "Call"
    THEN IF upper(expr.function) = CAST /\ Len(expr.args) = 2 /\ expr.args[2].type = "Variable"
         THEN TranslatedVariables(expr.args[1])
         ELSE UNION {TranslatedVariables(expr.args[k]) : k \in 1..Len(expr.args)}
    ELSE IF expr.type = "Expression2" THEN TranslatedVariables(expr.arg1)
    ELSE {}

RECURSIVE Unsupported(_)
\* does the expression hold a construct that fails by itself: `^', a CAST
\* that has not two arguments with a name as the second, a property lookup
\* on something else than a variable
Unsupported(expr) ==
    IF expr.type = "List" THEN \E k \in 1..Len(expr.elements) : Unsupported(expr.elements[k])
    ELSE IF expr.type = "Minus" THEN Unsupported(expr.arg)
    ELSE IF expr.type \in {"Add", "Eq"} THEN Unsupported(expr.arg1) \/ Unsupported(expr.arg2)
    ELSE IF expr.type = "Hat" THEN TRUE
    ELSE IF expr.type = "Call"
    THEN IF upper(expr.function) = CAST
         THEN ~(Len(expr.args) = 2 /\ expr.args[2].type = "Variable") \/ Unsupported(expr.args[1])
         ELSE \E k \in 1..Len(expr.args) : Unsupported(expr.args[k])
    ELSE IF expr.type = "Expression2" THEN expr.arg1.type # "Variable"
    ELSE FALSE

RECURSIVE ListElements(_)
\* the elements of the lists in an expression
ListElements(expr) ==
    IF expr.type = "List"
    THEN {expr.elements[k] : k \in 1..Len(expr.elements)}
         \cup UNION {ListElements(expr.elements[k]) : k \in 1..Len(expr.elements)}
    ELSE IF expr.type = "Minus" THEN ListElements(expr.arg)
    ELSE IF expr.type \in {"Add", "Eq", "Hat"} THEN ListElements(expr.arg1) \cup ListElements(expr.arg2)
    ELSE IF expr.type = "Call" THEN UNION {ListElements(expr.args[k]) : k \in 1..Len(expr.args)}
    ELSE {}

\* the expressions of the where, return and order clauses
OpenExpressions(req) ==
    (IF req.where_clause.type = "None" THEN {} ELSE {req.where_clause.expression})
    \cup (IF req.return_clause.type = "None" THEN {}
          ELSE {req.return_clause.items[k].expression : k \in 1..Len(req.return_clause.items)})
    \cup (IF req.order_clause.type = "None" THEN {}
          ELSE {req.order_clause.items[k].expression : k \in 1..Len(req.order_clause.items)})

\* the places where variables are forbidden: list elements, LIMIT and SKIP
ClosedExpressions(req) ==
    UNION {ListElements(e) : e \in OpenExpressions(req)}
    \cup (IF req.limit_clause.type = "None" THEN {} ELSE {req.limit_clause.expression})
    \cup (IF req.skip_clause.type = "None" THEN {} ELSE {req.skip_clause.expression})

WitnessCastTypeName ==
    /\ phase = "done"
    /\ request.limit_clause.type # "None"
    /\ AllVariables(request.limit_clause.expression) = {var_a}
    /\ EndsWith(query, <<"\n", "L", "I", "M", "I", "T", " ", "C", "A", "S", "T", "(", "?", " ", "A", "S", " ", "a", ")">>)

-----------------------------------------------------------------------------
(* The two-clause example of the source's closing docstring *)

var_r2 == <<"r", "2">>

\* g: (a)-[:loves]->(a)
ExampleLoves ==
    Clause(handle_g, Pattern(var_a, None, <<>>), Pattern(Anonymous, "loves", <<>>),
           Pattern(var_a, None, <<>>))

\* (a)-[r2:name]->(n), as written and with the handle of the first clause
ExampleName(graph) ==
    Clause(graph, Pattern(var_a, None, <<>>), Pattern(var_r2, "name", <<>>),
           Pattern(var_n, None, <<>>))

ExamplePool == {ExampleLoves, ExampleName(NoGraph), ExampleName(handle_g)}

\* no return clause is SELECT *; RETURN a
ExampleRequests ==
    { Request(NoClause, ReturnVar(v), NoClause, NoClause, NoClause) : v \in {<<"*">>, var_a} }

NextExample ==
    \/ \E clause \in ExamplePool : Pass1Graph(clause)
    \/ Pass1Pattern
    \/ EndPass1
    \/ Pass2Graph
    \/ Pass2Pattern
    \/ EndPass2
    \/ \E req \in ExampleRequests : Assemble(req)

SpecExample == InitTranslate /\ [][NextExample]_vars

\* the query of the example, its second clause taken either way
IsExample ==
    match_clauses \in {<<ExampleLoves, ExampleName(NoGraph)>>, <<ExampleLoves, ExampleName(handle_g)>>}

\* C17: g: (a)-[:loves]->(a), (a)-[r2:name]->(n) compiles to a query over the
\* aliases <g>_c1 and <g>_c2 with one label restriction per clause and the
\* joins c1.node1 = c1.node2 and c1.node1 = c2.node1.
ExampleQuery ==
    (IsExample /\ ((phase = "pass1" /\ pos = 0 /\ Len(match_clauses) = 2) \/ phase \in {"failed", "done"})) =>
        /\ phase # "failed"
        /\ phase = "done" =>
              \E graph \in {get_file_graph(files, files[k]) : k \in 1..Len(files)} :
                 LET c1 == clause_alias(graph, 1)
                     c2 == clause_alias(graph, 2)
                 IN  /\ from_list = <<<<graph, c1>>, <<graph, c2>>>>
                     /\ {r[1] : r \in restrictions} = {<<c1, labelcol>>, <<c2, labelcol>>}
                     /\ Cardinality(restrictions) = 2
                     /\ joins = {<<<<c1, node1col>>, <<c1, node2col>>>>,
                                 <<<<c1, node1col>>, <<c2, node1col>>>>}

-----------------------------------------------------------------------------
(* kgtk/join/edgereader.py: reading an edge file *)

MaxColumns == 4     \* column names in the first line of a file
MaxLines == 3       \* lines of a file after its first line

\* EdgeReader.open: column_separator (default)
column_separator == "\t"

\* str.split(sep) for a separator of one character: the pieces between the
\* separators, <<>> for an empty piece; a text without separator is one piece
split(s, sep) ==
    LET at == {i \in 1..Len(s) : s[i] = sep}
        nth(k) == IF k = 0 THEN 0
                  ELSE IF k > Cardinality(at) THEN Len(s) + 1
                  ELSE CHOOSE i \in at : Cardinality({j \in at : j < i}) = k - 1
    IN  [k \in 1..(Cardinality(at) + 1) |-> SubSeq(s, nth(k - 1) + 1, nth(k) - 1)]

NODE1_COLUMN_NAME == <<"n", "o", "d", "e", "1">>
NODE2_COLUMN_NAME == <<"n", "o", "d", "e", "2">>
LABEL_COLUMN_NAME == <<"l", "a", "b", "e", "l">>

\* column_name_map after the loop of lines 190-195: each name is sent to the
\* index (from 0) of its last column
name_map(column_names) ==
    [name \in {column_names[k] : k \in 1..Len(column_names)} |->
        (CHOOSE k \in 1..Len(column_names) :
            /\ column_names[k] = name
            /\ \A j \in (k + 1)..Len(column_names) : column_names[j] # name) - 1]

\* EdgeReader._setup lines 173-213 on the first line as readline() returns it,
\* with its line terminator: the column names and the indices of the three
\* mandatory columns, or the ValueError raised
setup_header(header, sep) ==
    LET column_names == split(header, sep)
        column_name_map == name_map(column_names)
        Raise(message) == [error |-> message, column_names |-> <<>>, column_name_map |-> EmptyMap,
                           node1_column_idx |-> 0, node2_column_idx |-> 0, label_column_idx |-> 0]
    IN  IF Len(column_names) < 3
        THEN Raise("The edge file header must have at least three columns.")
        ELSE IF \E k \in 1..Len(column_names) : Len(column_names[k]) = 0
        THEN Raise("Invalid column name in the edge file header")
        ELSE IF NODE1_COLUMN_NAME \notin DOMAIN column_name_map
        THEN Raise("Missing node1 column in the edge file header")
        ELSE IF NODE2_COLUMN_NAME \notin DOMAIN column_name_map
        THEN Raise("Missing node2 column in the edge file header")
        ELSE IF LABEL_COLUMN_NAME \notin DOMAIN column_name_map
        THEN Raise("Missing label column in the edge file header")
        ELSE [error |-> None, column_names |-> column_names, column_name_map |-> column_name_map,
              node1_column_idx |-> column_name_map[NODE1_COLUMN_NAME],
              node2_column_idx |-> column_name_map[NODE2_COLUMN_NAME],
              label_column_idx |-> column_name_map[LABEL_COLUMN_NAME]]

\* EdgeReader.open and _setup: the first line is read and split, the reader
\* object is built with line_count = [1], and with gzip_in_parallel the
\* GunzipProcess is created over a Queue(gzip_queue_size) and started
EdgeReader_open(require_all_columns, prohibit_extra_columns, fill_missing_columns, gzip_in_parallel, gzip_queue_size) ==
    /\ phase = "reader"
    /\ reader.status = "unopened"
    /\ \E h \in {setup_header(file_in.header, column_separator)} :
          /\ reader' = IF h.error # None THEN [status |-> "failed", error |-> h.error]
                       ELSE [status |-> "open",
                             column_names |-> h.column_names,
                             column_name_map |-> h.column_name_map,
                             column_count |-> Len(h.column_names),
                             node1_column_idx |-> h.node1_column_idx,
                             node2_column_idx |-> h.node2_column_idx,
                             label_column_idx |-> h.label_column_idx,
                             require_all_columns |-> require_all_columns,
                             prohibit_extra_columns |-> prohibit_extra_columns,
                             fill_missing_columns |-> fill_missing_columns,
                             gzip_in_parallel |-> gzip_in_parallel,
                             gzip_queue_size |-> gzip_queue_size,
                             line_count |-> 1]
          /\ gzip_thread' = IF h.error = None /\ gzip_in_parallel
                            THEN [gzip_thread EXCEPT !.pc = "reading"] ELSE gzip_thread
    /\ UNCHANGED <<phase, litvars, graphvars, transvars, file_in, line_queue, lastnext, dequeued>>

pad_once(values, column_count) ==
    IF Len(values) < column_count THEN Append(values, <<>>) ELSE values

RECURSIVE pad(_, _)
\* lines 273-274: values.append("") while len(values) < column_count
pad(values, column_count) ==
    IF Len(values) < column_count THEN pad(Append(values, <<>>), column_count) ELSE values

\* EdgeReader.__next__ lines 260-281 on a line that was read: the values
\* returned or the ValueError raised with the line number it reports, and
\* line_count after the call
next_values(rd, line) ==
    LET values == split(line, column_separator) IN
    IF (rd.require_all_columns /\ Len(values) < rd.column_count)
       \/ (rd.prohibit_extra_columns /\ Len(values) > rd.column_count)
    THEN [kind |-> "ValueError", values |-> <<>>, reported |-> rd.line_count,
          line_count |-> rd.line_count]
    ELSE [kind |-> "values",
          values |-> IF rd.fill_missing_columns THEN pad(values, rd.column_count) ELSE values,
          reported |-> 0, line_count |-> rd.line_count + 1]

\* the end of the stream, for a read that finds no further line
EndOfFile == <<>>

\* the texts a line of the file may be: two to five values
LinePool == { <<"a", "	", "b", "\n">>, <<"a", "	", "b", "	", "c", "\n">>, <<"a", "	", "b", "	", "c", "	", "d", "\n">>, <<"a", "	", "b", "	", "c", "	", "d", "	", "e", "\n">> }

\* what the stream gives when it is read once more
NextLines == IF file_in.at < MaxLines THEN LinePool \cup {EndOfFile} ELSE {EndOfFile}

\* EdgeReader.__next__ without GunzipProcess (lines 246-281): next(file_in)
\* gives the next line, raises StopIteration at the end of the stream (the
\* stream is then closed, line 257) and ValueError on a closed stream
EdgeReader__next__(line) ==
    /\ phase = "reader"
    /\ reader.status = "open" /\ ~reader.gzip_in_parallel
    /\ IF file_in.closed
       THEN /\ lastnext' = [kind |-> "ValueError: I/O operation on closed file", values |-> <<>>,
                            record |-> 0, reported |-> 0, line |-> <<>>]
            /\ UNCHANGED <<file_in, reader>>
       ELSE /\ line \in (IF file_in.eof THEN {EndOfFile} ELSE NextLines)
            /\ IF line = EndOfFile
               THEN /\ file_in' = [file_in EXCEPT !.eof = TRUE, !.closed = TRUE]
                    /\ lastnext' = [kind |-> "StopIteration", values |-> <<>>, record |-> 0,
                                    reported |-> 0, line |-> <<>>]
                    /\ UNCHANGED reader
               ELSE \E r \in {next_values(reader, line)} :
                    /\ file_in' = [file_in EXCEPT !.at = @ + 1]
                    /\ reader' = [reader EXCEPT !.line_count = r.line_count]
                    /\ lastnext' = [kind |-> r.kind, values |-> r.values,
                                    record |-> file_in.at + 1, reported |-> r.reported,
                                    line |-> line]
    /\ UNCHANGED <<phase, litvars, graphvars, transvars, gzip_thread, line_queue, dequeued>>

\* the names a column of the first line may have
ColumnNames == { NODE1_COLUMN_NAME, NODE2_COLUMN_NAME, LABEL_COLUMN_NAME, <<"i", "d">>, <<>> }

\* the first line of a file: up to MaxColumns names separated by tabs, with
\* its line terminator or, where the file ends after it, without; <<>> is the
\* first line of an empty file
HeaderLines ==
    {<<>>} \cup
    { join(<<column_separator>>, names) \o end :
        names \in UNION {[1..n -> ColumnNames] : n \in 1..MaxColumns}, end \in {<<>>, <<"\n">>} }

InitReader(headers) ==
    /\ phase = "reader"
    /\ InitLitVars
    /\ IdleGraphVars
    /\ InitTransVars
    /\ file_in \in {[NoStream EXCEPT !.header = h] : h \in headers}
    /\ reader = NoReader
    /\ gzip_thread = NoThread
    /\ line_queue = <<>>
    /\ lastnext = NoNext
    /\ dequeued = <<>>

NextReader ==
    \/ \E require_all_columns \in BOOLEAN, prohibit_extra_columns \in BOOLEAN,
          fill_missing_columns \in BOOLEAN :
          EdgeReader_open(require_all_columns, prohibit_extra_columns, fill_missing_columns, FALSE, 1)
    \/ \E line \in LinePool \cup {EndOfFile} : EdgeReader__next__(line)

SpecReader == InitReader(HeaderLines) /\ [][NextReader]_vars

\* C18: a record-shape error raised for the k-th line read after the first
\* line reports line number k, whatever the earlier calls returned or raised.
ErrorLineIsRecordNumber ==
    lastnext.kind = "ValueError" => lastnext.reported = lastnext.record

\* the first line of the file without its line terminator
FirstLine ==
    IF Len(file_in.header) > 0 /\ file_in.header[Len(file_in.header)] = "\n"
    THEN SubSeq(file_in.header, 1, Len(file_in.header) - 1) ELSE file_in.header

\* C19: open succeeds exactly when the first line, split by the separator,
\* has at least three columns, no empty name and the names node1, node2 and
\* label at any position; then column_name_map sends the names to their
\* indices and the three mandatory indices point at these columns.
OpenIffHeaderComplete ==
    LET names == split(FirstLine, column_separator)
        complete == /\ Len(names) >= 3
                    /\ \A k \in 1..Len(names) : names[k] # <<>>
                    /\ \A name \in {NODE1_COLUMN_NAME, NODE2_COLUMN_NAME, LABEL_COLUMN_NAME} :
                          \E k \in 1..Len(names) : names[k] = name
    IN  reader.status # "unopened" =>
            /\ reader.status = "open" <=> complete
            /\ reader.status = "open" =>
                  /\ \A name \in DOMAIN reader.column_name_map :
                        reader.column_names[reader.column_name_map[name] + 1] = name
                  /\ reader.column_names[reader.node1_column_idx + 1] = NODE1_COLUMN_NAME
                  /\ reader.column_names[reader.node2_column_idx + 1] = NODE2_COLUMN_NAME
                  /\ reader.column_names[reader.label_column_idx + 1] = LABEL_COLUMN_NAME

-----------------------------------------------------------------------------
(* GunzipProcess: reading the lines in a second process *)

MaxQueue == 2       \* gzip_queue_size

\* what line_queue holds: str, with None as a plug
Line(line) == [plug |-> FALSE, line |-> line]
Plug == [plug |-> TRUE, line |-> <<>>]

any_item_is_plug(item) == TRUE

\* GunzipProcess.__next__ line 44: line is None
is_plug(item) == item.plug

can_put_always(queue, maxsize) == TRUE

\* Queue(maxsize).put returns once the queue holds fewer than maxsize items
can_put(queue, maxsize) == Len(queue) < maxsize

\* GunzipProcess.run line 34: the loop takes the next line of the stream, or
\* finds its end
GunzipProcess_run_next(line) ==
    /\ phase = "reader"
    /\ gzip_thread.pc = "reading"
    /\ line \in NextLines
    /\ IF line = EndOfFile
       THEN /\ gzip_thread' = [gzip_thread EXCEPT !.pc = "plugging"]
            /\ file_in' = [file_in EXCEPT !.eof = TRUE]
       ELSE /\ gzip_thread' = [gzip_thread EXCEPT !.pc = "putting", !.line = line,
                                                  !.produced = Append(@, line)]
            /\ file_in' = [file_in EXCEPT !.at = @ + 1]
    /\ UNCHANGED <<phase, litvars, graphvars, transvars, reader, line_queue, lastnext, dequeued>>

\* GunzipProcess.run line 35: self.line_queue.put(line)
GunzipProcess_run_put ==
    /\ phase = "reader"
    /\ gzip_thread.pc = "putting"
    /\ can_put(line_queue, reader.gzip_queue_size)
    /\ line_queue' = Append(line_queue, Line(gzip_thread.line))
    /\ gzip_thread' = [gzip_thread EXCEPT !.pc = "reading", !.line = <<>>]
    /\ UNCHANGED <<phase, litvars, graphvars, transvars, file_in, reader, lastnext, dequeued>>

\* GunzipProcess.run line 36: self.line_queue.put(None)
GunzipProcess_run_plug ==
    /\ phase = "reader"
    /\ gzip_thread.pc = "plugging"
    /\ can_put(line_queue, reader.gzip_queue_size)
    /\ line_queue' = Append(line_queue, Plug)
    /\ gzip_thread' = [gzip_thread EXCEPT !.pc = "done"]
    /\ UNCHANGED <<phase, litvars, graphvars, transvars, file_in, reader, lastnext, dequeued>>

\* EdgeReader.__next__ with GunzipProcess (lines 249-250 and 42-47):
\* line_queue.get() returns once the queue holds an item; the plug raises
\* StopIteration and the caller closes its stream (line 257), a line is split
\* and checked as in the other mode
GunzipProcess__next__ ==
    /\ phase = "reader"
    /\ reader.status = "open" /\ reader.gzip_in_parallel
    /\ line_queue # <<>>
    /\ line_queue' = Tail(line_queue)
    /\ IF is_plug(Head(line_queue))
       THEN /\ file_in' = [file_in EXCEPT !.closed = TRUE]
            /\ lastnext' = [kind |-> "StopIteration", values |-> <<>>, record |-> 0, reported |-> 0, line |-> <<>>]
            /\ UNCHANGED <<reader, dequeued>>
       ELSE \E r \in {next_values(reader, Head(line_queue).line)} :
            /\ dequeued' = Append(dequeued, Head(line_queue).line)
            /\ reader' = [reader EXCEPT !.line_count = r.line_count]
            /\ lastnext' = [kind |-> r.kind, values |-> r.values,
                            record |-> Len(dequeued) + 1, reported |-> r.reported,
                            line |-> Head(line_queue).line]
            /\ UNCHANGED file_in
    /\ UNCHANGED <<phase, litvars, graphvars, transvars, gzip_thread>>

\* node1, label, node2, id
GunzipHeaders == { join(<<column_separator>>,
                        <<NODE1_COLUMN_NAME, LABEL_COLUMN_NAME, NODE2_COLUMN_NAME, <<"i", "d">>>>) \o <<"\n">> }

NextGunzip ==
    \/ \E require_all_columns \in BOOLEAN, gzip_queue_size \in 1..MaxQueue :
          EdgeReader_open(require_all_columns, TRUE, FALSE, TRUE, gzip_queue_size)
    \/ \E line \in LinePool \cup {EndOfFile} : GunzipProcess_run_next(line)
    \/ GunzipProcess_run_put
    \/ GunzipProcess_run_plug
    \/ GunzipProcess__next__

\* the worker process runs, and the caller goes on calling next() as the
\* loop of the test program does
SpecGunzip ==
    /\ InitReader(GunzipHeaders) /\ [][NextGunzip]_vars
    /\ WF_vars(\E line \in LinePool \cup {EndOfFile} : GunzipProcess_run_next(line))
    /\ WF_vars(GunzipProcess_run_put)
    /\ WF_vars(GunzipProcess_run_plug)
    /\ WF_vars(GunzipProcess__next__)

\* the lines waiting in the queue, in order
Waiting == [k \in 1..Cardinality({j \in 1..Len(line_queue) : ~line_queue[j].plug}) |-> line_queue[k].line]

\* the lines read by the worker are those the caller has taken, those in the
\* queue and the one the worker holds, in this order; the queue is within
\* its capacity; the plug is the last item put; StopIteration is raised when
\* every line has been taken
HandOffInOrder ==
    (reader.status = "open" /\ reader.gzip_in_parallel) =>
        /\ Len(line_queue) <= reader.gzip_queue_size
        /\ \A k \in 1..Len(line_queue) :
              line_queue[k].plug => (k = Len(line_queue) /\ gzip_thread.pc = "done")
        /\ gzip_thread.produced
              = dequeued \o Waiting
                \o (IF gzip_thread.pc = "putting" THEN <<gzip_thread.line>> ELSE <<>>)
        /\ lastnext.kind = "StopIteration" =>
              /\ dequeued = gzip_thread.produced
              /\ gzip_thread.pc = "done" /\ line_queue = <<>>
              /\ file_in.eof

\* C20: under every interleaving of worker and caller, the caller takes from
\* the queue exactly the lines the worker read, in order and each once, and
\* then the end of the stream, signalled by the plug; the queue never holds
\* more than its capacity and no line is taken for the plug.
HandOff ==
    /\ []HandOffInOrder
    /\ (reader.status = "open" /\ reader.gzip_in_parallel) ~> (lastnext.kind = "StopIteration")

\* MaxLines lines went through a queue of one place, which was full while the
\* worker held the next line, and the caller has seen the end of the stream
WitnessHandOffComplete ==
    /\ reader.status = "open" /\ reader.gzip_in_parallel /\ reader.gzip_queue_size = 1
    /\ lastnext.kind = "StopIteration"
    /\ Len(dequeued) = MaxLines /\ dequeued = gzip_thread.produced
    /\ dequeued[1] # dequeued[2]

-----------------------------------------------------------------------------
(* Iterating to the end of the stream and beyond, in both modes *)

\* EdgeReader.__next__ with GunzipProcess, called while the queue is empty:
\* the caller is inside line_queue.get() (line 43) until an item is put
GunzipProcess__next__get ==
    /\ phase = "reader"
    /\ reader.status = "open" /\ reader.gzip_in_parallel
    /\ line_queue = <<>>
    /\ lastnext.kind # "get"
    /\ lastnext' = [kind |-> "get", values |-> <<>>, record |-> 0, reported |-> 0, line |-> <<>>]
    /\ UNCHANGED <<phase, litvars, graphvars, transvars, file_in, reader, gzip_thread, line_queue, dequeued>>

NextIterate ==
    \/ \E require_all_columns \in BOOLEAN, gzip_in_parallel \in BOOLEAN, gzip_queue_size \in 1..MaxQueue :
          /\ gzip_in_parallel \/ gzip_queue_size = 1
          /\ EdgeReader_open(require_all_columns, TRUE, FALSE, gzip_in_parallel, gzip_queue_size)
    \/ \E line \in LinePool \cup {EndOfFile} : EdgeReader__next__(line)
    \/ \E line \in LinePool \cup {EndOfFile} : GunzipProcess_run_next(line)
    \/ GunzipProcess_run_put
    \/ GunzipProcess_run_plug
    \/ GunzipProcess__next__get
    \/ GunzipProcess__next__

SpecIterate == InitReader(GunzipHeaders) /\ [][NextIterate]_vars

\* the stream is closed only at its end, when every line read has been handed
\* to the caller
ClosedAfterEveryLine ==
    file_in.closed =>
        /\ file_in.eof
        /\ reader.gzip_in_parallel =>
              /\ dequeued = gzip_thread.produced
              /\ line_queue = <<>>
              /\ gzip_thread.pc = "done"

\* the call that raises StopIteration is the one that closes the stream
StopIterationCloses ==
    (lastnext'.kind = "StopIteration" /\ lastnext.kind # "StopIteration")
        <=> (~file_in.closed /\ file_in'.closed)

\* C21: the stream is closed by the next() call that signals the end of the
\* stream and by no other, and it is never closed before every line of the
\* stream has been handed to the caller, with and without GunzipProcess.
CloseWhenExhausted ==
    /\ []ClosedAfterEveryLine
    /\ [][StopIterationCloses]_vars

\* the stream was closed after MaxLines lines had gone through the queue
WitnessClosedAfterHandOff ==
    /\ reader.status = "open" /\ reader.gzip_in_parallel
    /\ file_in.closed /\ lastnext.kind = "StopIteration"
    /\ Len(dequeued) = MaxLines

\* the stream was closed after MaxLines lines had been read without the queue
WitnessClosedDirect ==
    /\ reader.status = "open" /\ ~reader.gzip_in_parallel
    /\ file_in.closed /\ lastnext.kind = "StopIteration"
    /\ file_in.at = MaxLines

-----------------------------------------------------------------------------
(* The number of values of a line and the three policies *)

\* the number of fields of a text: one more than its separators
Fields(text) == Cardinality({i \in 1..Len(text) : text[i] = column_separator}) + 1

RECURSIVE Glued(_)
\* the values written one after the other with a separator between them
Glued(values) ==
    IF Len(values) = 0 THEN <<>>
    ELSE IF Len(values) = 1 THEN values[1]
    ELSE values[1] \o <<column_separator>> \o Glued(Tail(values))

\* values are the fields of the text
FieldsOf(values, text) ==
    /\ Len(values) = Fields(text)
    /\ Glued(values) = text

\* C22: a line with fewer fields than the first line of the file is rejected
\* exactly when require_all_columns is set, a line with more fields exactly
\* when prohibit_extra_columns is set, and a line with as many fields never;
\* a short line that is not rejected is returned, with
\* fill_missing_columns, followed by empty strings up to the number of
\* columns; a rejected line gives no values.
ShapePolicies ==
    lastnext.kind \in {"values", "ValueError"} =>
        LET n == Fields(lastnext.line)
            c == Fields(file_in.header)
        IN  /\ n < c => (lastnext.kind = "ValueError" <=> reader.require_all_columns)
            /\ n > c => (lastnext.kind = "ValueError" <=> reader.prohibit_extra_columns)
            /\ n = c => lastnext.kind = "values"
            /\ lastnext.kind = "ValueError" => lastnext.values = <<>>
            /\ lastnext.kind = "values" =>
                  IF reader.fill_missing_columns /\ n < c
                  THEN /\ Len(lastnext.values) = c
                       /\ FieldsOf(SubSeq(lastnext.values, 1, n), lastnext.line)
                       /\ \A k \in (n + 1)..c : lastnext.values[k] = <<>>
                  ELSE FieldsOf(lastnext.values, lastnext.line)

\* a line of two fields was returned with two empty strings after them, by a
\* reader of four columns that requires all columns of no line
WitnessPaddedByTwo ==
    /\ lastnext.kind = "values"
    /\ reader.fill_missing_columns /\ ~reader.require_all_columns
    /\ Fields(file_in.header) = 4 /\ Fields(lastnext.line) = 2
    /\ Len(lastnext.values) = 4

\* a line of five fields was rejected by a reader of four columns
WitnessExtraRejected ==
    /\ lastnext.kind = "ValueError"
    /\ reader.prohibit_extra_columns
    /\ Fields(file_in.header) = 4 /\ Fields(lastnext.line) = 5

\* require_all_columns and fill_missing_columns together: the short line is
\* rejected, not filled
WitnessRequireBeforeFill ==
    /\ lastnext.kind = "ValueError"
    /\ reader.require_all_columns /\ reader.fill_missing_columns
    /\ Fields(lastnext.line) < Fields(file_in.header)

-----------------------------------------------------------------------------
(* The reference a new reference is joined to *)

\* a register_clause_variable call that joined a new reference to best_var
JoinedNew(call) == call.order # <<>> /\ ~call.present /\ call.best_var # call.ref

\* C23: when register_clause_variable joins a new reference, best_var has the
\* alias of the new reference whenever some reference of the variable has it,
\* wherever that reference stands in the iteration order; otherwise best_var
\* is the reference iterated last.
BestVarPrefersSameAlias ==
    \A k \in 1..Len(lastregs) :
        LET call == lastregs[k] IN
        JoinedNew(call) =>
            IF \E i \in 1..Len(call.order) : call.order[i][1] = call.ref[1]
            THEN call.best_var[1] = call.ref[1]
            ELSE call.best_var = call.last

\* the same, when the reference with the alias of the new one is not the
\* first of the iteration order
BestVarPrefersSameAliasAfterFirst ==
    \A k \in 1..Len(lastregs) :
        LET call == lastregs[k] IN
        JoinedNew(call) =>
            IF \E i \in 2..Len(call.order) : call.order[i][1] = call.ref[1]
            THEN call.best_var[1] = call.ref[1]
            ELSE call.best_var = call.last

-----------------------------------------------------------------------------
(* Calling next() again after the end of the stream *)

\* C24: once a next() call has raised StopIteration (and so closed the
\* stream), every further next() call returns by raising StopIteration again,
\* with and without GunzipProcess.
EndOfStreamAgain ==
    file_in.closed => lastnext.kind = "StopIteration"

\* without GunzipProcess the further call raises another error
ClosedFileError ==
    /\ reader.status = "open" /\ ~reader.gzip_in_parallel
    /\ file_in.closed
    /\ lastnext.kind = "ValueError: I/O operation on closed file"

\* with GunzipProcess the further call is inside line_queue.get(), the
\* worker has finished, and no step of worker or caller is left
BlockedInGet ==
    /\ reader.status = "open" /\ reader.gzip_in_parallel
    /\ file_in.closed
    /\ lastnext.kind = "get"
    /\ gzip_thread.pc = "done"
    /\ ~ENABLED NextIterate

====
